---------------------------- MODULE Spec2Model ----------------------------
(***************************************************************************)
(* A model of graphterm's lineterm.py: the line-oriented terminal emulator *)
(* (Terminal), its scroll history (ScreenBuf), the private-escape pagelet  *)
(* protocol and the notebook mode.                                         *)
(*                                                                         *)
(* Conventions.  A byte is an integer (its ASCII code); a string is a      *)
(* sequence of bytes.  A screen cell holds a code point (the style byte is *)
(* left out).  Python's None for a row's metadata is NoMeta.  Python lists *)
(* and arrays are sequences; Python index k is TLA+ index k+1, and the     *)
(* Py* operators give Python's semantics for negative and out-of-range     *)
(* indices and for slice assignment.  An exception raised by the code sets *)
(* the field exc and abandons the rest of the handler.                     *)
(* A byte above 255 is a token: it stands for one fixed multi-byte text of *)
(* a pagelet payload (a JSON header block, a gterm directive comment) and  *)
(* is counted as one byte.                                                 *)
(* An operator named f_x is the part of the handler f that follows the     *)
(* assignment of its local x: x is its last parameter, so that the value   *)
(* is computed once however often the rest of f reads it.                  *)
(***************************************************************************)
EXTENDS Integers, Sequences, FiniteSets, TLC

VARIABLES term, steps, hist, mux

vars == <<term, steps, hist, mux>>

---------------------------------------------------------------------------
(* The two size limits, scaled down: 500 lines and 1000000 bytes in the    *)
(* source.  MAX_SCROLL_LINES keeps the source's parity.                    *)
MAX_SCROLL_LINES == 4
MAX_PAGELET_BYTES == 3

(* Program constants. *)
MAX_ESC_LEN == 32
PROMPT_CODE == 1150
PAGELET_CODE == 1155
ALT_CODE == 1049

GRAPHTERM_SCREEN_CODES == {PROMPT_CODE, PAGELET_CODE}
ALTERNATE_SCREEN_CODES == {47, 1047, ALT_CODE}

(* Bytes. *)
NUL == 0
BS == 8
HT == 9
LF == 10
CR == 13
ESC == 27
SPACE == 32
DOLLAR == 36
DOT == 46
SEMI == 59
LT == 60
QMARK == 63
LBRACKET == 91
RBRACKET == 93
DEL == 127

(* Bounds of the model. *)
MaxSteps == 4
MaxCells == 3

Min(a, b) == IF a < b THEN a ELSE b
Max(a, b) == IF a > b THEN a ELSE b

---------------------------------------------------------------------------
(* Python sequence semantics. *)

PyNorm(i, n) ==
    IF i < 0 THEN (IF i + n < 0 THEN 0 ELSE i + n) ELSE (IF i > n THEN n ELSE i)

PySlice(s, a, b) ==
    LET n == Len(s)
        i == PyNorm(a, n)
        j == PyNorm(b, n)
    IN  IF j <= i THEN << >> ELSE SubSeq(s, i + 1, j)

PySliceAssign(s, a, b, z) ==
    LET n == Len(s)
        i == PyNorm(a, n)
        j0 == PyNorm(b, n)
        j == IF j0 < i THEN i ELSE j0
    IN  SubSeq(s, 1, i) \o z \o SubSeq(s, j + 1, n)

PyIndexOk(i, n) == (i >= 0 /\ i < n) \/ (i < 0 /\ i + n >= 0)

PyIndex(i, n) == IF i < 0 THEN i + n + 1 ELSE i + 1

Repeat(v, n) == [k \in 1..n |-> v]

create_array(fill_value, count) == Repeat(fill_value, Max(count, 0))

StartsWith(s, p) == Len(p) <= Len(s) /\ SubSeq(s, 1, Len(p)) = p

\* str.find: the 0-based offset of the first occurrence of p in s, or -1
Find(s, p) ==
    LET hits == {k \in 0..(Len(s) - Len(p)) : SubSeq(s, k + 1, k + Len(p)) = p}
    IN  IF Len(p) > Len(s) \/ hits = {} THEN -1
        ELSE CHOOSE k \in hits : \A m \in hits : k <= m

RECURSIVE RStrip(_, _)
RStrip(s, c) ==
    IF s # << >> /\ s[Len(s)] = c THEN RStrip(SubSeq(s, 1, Len(s) - 1), c) ELSE s

---------------------------------------------------------------------------
(* Row metadata: None, or the tuple (current_directory, continuation). *)
NoMeta == [set |-> FALSE, dir |-> << >>, cont |-> 0]
Meta(d, c) == [set |-> TRUE, dir |-> d, cont |-> c]

(* The prompt delimiters (prefix, suffix) the multiplexer passes on; the   *)
(* notebook ScreenBuf and notebook retirement use none.                    *)
PDELIM == << << >>, <<DOLLAR>> >>
NoPdelim == << >>

uclean_t(t) ==
    [k \in 1..Len(t) |-> IF t[k] = NUL THEN SPACE ELSE IF t[k] = DEL THEN QMARK ELSE t[k]]

uclean(ustr, trim) ==
    uclean_t(IF trim THEN RStrip(ustr, NUL) ELSE ustr)

dump(data, trim) ==
    LET ucodes == [k \in 1..Len(data) |->
                     IF data[k] < 32 /\ data[k] # 0 /\ data[k] # 10 THEN SPACE ELSE data[k]]
    IN  uclean(ucodes, trim)

prompt_offset_end_offset(pdelim, end_offset) ==
    IF end_offset >= 0 THEN end_offset + Len(pdelim[2]) ELSE 0

prompt_offset(line, pdelim, meta) ==
    IF pdelim = << >> THEN 0
    ELSE IF (meta.set /\ meta.cont = 0) \/ (pdelim[1] # << >> /\ StartsWith(line, pdelim[1]))
         THEN prompt_offset_end_offset(pdelim, Find(line, pdelim[2]))ELSE 0

---------------------------------------------------------------------------
(* Scroll entries.  params = [kind, options]: the options the code reads   *)
(* are kept as fields; markup is kept by its origin: "none" (None),        *)
(* "command" (command_markup of a prompt line), "payload" (pagelet         *)
(* content), "blank" (the empty string).                                   *)
NoneInt == -1000

PlainParams == [jtype |-> "", blob |-> "", overwrite |-> FALSE, form_input |-> FALSE]

PageletParams(kind, blob, overwrite, form) ==
    [jtype |-> kind, blob |-> blob, overwrite |-> overwrite, form_input |-> form]

ScrollEntry(index, offset, dir, rp, add_class, pagelet_id, line, markup) ==
    [jindex |-> index, joffset |-> offset, jdir |-> dir, jtype |-> rp.jtype,
     blob |-> rp.blob, overwrite |-> rp.overwrite, form_input |-> rp.form_input,
     add_class |-> add_class, pagelet_id |-> pagelet_id, line |-> line, markup |-> markup]

NoScreen == [set |-> FALSE, data |-> << >>]

\* a variant that keeps the dimensions of the screen and not its cells
make_copy_blank(screen) == [set |-> TRUE, data |-> [k \in 1..Len(screen.data) |-> NUL]]

\* Screen.make_copy, as far as ScreenBuf reads the copy: the cells
make_copy(screen) == [set |-> TRUE, data |-> screen.data]

---------------------------------------------------------------------------
(* ScreenBuf *)

\* clear_buf, had it started the buffer afresh
clear_buf_afresh(sb) ==
    [sb EXCEPT !.entry_index = 0,
               !.current_scroll_count = 0,
               !.last_scroll_count = 0,
               !.scroll_lines = << >>,
               !.last_blob_id = "",
               !.delete_blob_ids = << >>,
               !.full_update = TRUE]

clear_buf(sb) ==
    [sb EXCEPT !.last_scroll_count = sb.current_scroll_count,
               !.scroll_lines = << >>,
               !.last_blob_id = "",
               !.delete_blob_ids = << >>,
               !.full_update = TRUE]

ScreenBuf(pdelim) ==
    [pdelim |-> pdelim,
     pre_offset |-> IF pdelim # << >> THEN Len(pdelim[1]) ELSE 0,
     width |-> NoneInt, height |-> NoneInt, cursorx |-> NoneInt, cursory |-> NoneInt,
     main_screen |-> NoScreen, alt_screen |-> NoScreen,
     entry_index |-> 0, current_scroll_count |-> 0,
     last_scroll_count |-> 0, scroll_lines |-> << >>, last_blob_id |-> "",
     delete_blob_ids |-> << >>, full_update |-> TRUE,
     cleared_current_dir |-> [set |-> FALSE, dir |-> << >>], cleared_last |-> FALSE,
     buf_note |-> 0, exc |-> ""]

set_buf_note(sb, buf_note) == [sb EXCEPT !.buf_note = buf_note]

\* the blob ids of the entries of lines, in order
RECURSIVE BlobIds(_)
BlobIds(lines) ==
    IF lines = << >> THEN << >>
    ELSE (IF lines[1].blob # "" THEN <<lines[1].blob>> ELSE << >>) \o BlobIds(Tail(lines))

\* the first Python index n such that lines[n..] all carry entry_index
RECURSIVE FirstOfEntry(_, _, _)
FirstOfEntry(lines, n, entry_index) ==
    IF n > 0 /\ lines[n].jindex = entry_index
    THEN FirstOfEntry(lines, n - 1, entry_index) ELSE n

clear_last_entry_uncapped_n(sb, len, n) ==
    LET count == sb.current_scroll_count - (len - n)
        removed == SubSeq(sb.scroll_lines, n + 1, len)
    IN  [sb EXCEPT !.entry_index = sb.entry_index - 1,
                                 !.current_scroll_count = count,
                                 !.cleared_last = TRUE,
                                 !.cleared_current_dir =
                                     IF sb.cleared_current_dir.set THEN sb.cleared_current_dir
                                     ELSE [set |-> TRUE, dir |-> sb.scroll_lines[n + 1].jdir],
                                 !.delete_blob_ids = sb.delete_blob_ids \o BlobIds(removed),
                                 !.scroll_lines = SubSeq(sb.scroll_lines, 1, n)]

\* a variant that leaves last_scroll_count above the lowered current_scroll_count
clear_last_entry_uncapped(sb, last_entry_index) ==
    IF sb.scroll_lines = << >> \/ sb.entry_index <= 0 THEN sb
    ELSE LET len == Len(sb.scroll_lines)
             entry_index == sb.scroll_lines[len].jindex
         IN  IF sb.entry_index # entry_index THEN sb
             ELSE IF last_entry_index # 0 /\ last_entry_index # entry_index THEN sb
             ELSE clear_last_entry_uncapped_n(sb, len,
                          FirstOfEntry(sb.scroll_lines, len - 1, entry_index))

clear_last_entry_n(sb, len, n) ==
    LET count == sb.current_scroll_count - (len - n)
        removed == SubSeq(sb.scroll_lines, n + 1, len)
    IN  [sb EXCEPT !.entry_index = sb.entry_index - 1,
                                 !.current_scroll_count = count,
                                 !.cleared_last = TRUE,
                                 !.cleared_current_dir =
                                     IF sb.cleared_current_dir.set THEN sb.cleared_current_dir
                                     ELSE [set |-> TRUE, dir |-> sb.scroll_lines[n + 1].jdir],
                                 !.delete_blob_ids = sb.delete_blob_ids \o BlobIds(removed),
                                 !.scroll_lines = SubSeq(sb.scroll_lines, 1, n),
                                 !.last_scroll_count =
                                     IF sb.last_scroll_count > count THEN count
                                     ELSE sb.last_scroll_count]

clear_last_entry(sb, last_entry_index) ==
    IF sb.scroll_lines = << >> \/ sb.entry_index <= 0 THEN sb
    ELSE LET len == Len(sb.scroll_lines)
             entry_index == sb.scroll_lines[len].jindex
         IN  IF sb.entry_index # entry_index THEN sb
             ELSE IF last_entry_index # 0 /\ last_entry_index # entry_index THEN sb
             ELSE clear_last_entry_n(sb, len, FirstOfEntry(sb.scroll_lines, len - 1, entry_index))

blank_last_entry(sb) ==
    IF sb.scroll_lines = << >> THEN sb
    ELSE LET n == Len(sb.scroll_lines)
         IN  IF sb.scroll_lines[n].joffset # 0 THEN [sb EXCEPT !.exc = "AssertionError"]
             ELSE [sb EXCEPT !.scroll_lines[n] =
                       [@ EXCEPT !.jtype = "pagelet", !.blob = "", !.overwrite = FALSE,
                                 !.form_input = FALSE, !.add_class = "",
                                 !.pagelet_id = <<sb.buf_note, sb.current_scroll_count>>,
                                 !.line = << >>, !.markup = "blank"],
                     !.last_scroll_count =
                       IF sb.current_scroll_count > 0
                          /\ sb.last_scroll_count >= sb.current_scroll_count
                       THEN sb.current_scroll_count - 1 ELSE sb.last_scroll_count]

\* the while loop that drops the rest of the oldest entry group
RECURSIVE EvictLoop(_, _)
EvictLoop(sb, old_entry_index) ==
    IF sb.scroll_lines # << >> /\ sb.scroll_lines[1].jindex = old_entry_index
    THEN LET after1 == Tail(sb.scroll_lines)
         IN  IF after1 = << >>
             THEN [sb EXCEPT !.scroll_lines = after1, !.exc = "IndexError"]
             ELSE LET tem == after1[1]
                  IN  EvictLoop([sb EXCEPT !.scroll_lines = Tail(after1),
                                           !.delete_blob_ids =
                                               IF tem.blob # "" THEN Append(@, tem.blob) ELSE @],
                                old_entry_index)
    ELSE sb

Evict(sb) ==
    IF Len(sb.scroll_lines) > MAX_SCROLL_LINES
    THEN LET old == sb.scroll_lines[1]
         IN  EvictLoop([sb EXCEPT !.scroll_lines = Tail(@),
                                  !.delete_blob_ids =
                                      IF old.blob # "" THEN Append(@, old.blob) ELSE @],
                       old.jindex)
    ELSE sb

\* the condition of the branch "Overwrite previous pagelet entry"
\* the overwrite test, had it never found the entry to overwrite
InPlaceNever(sb, offset, row_params) == FALSE

InPlace(sb, offset, row_params) ==
    LET n == Len(sb.scroll_lines)
    IN  /\ offset = 0 /\ row_params.jtype # "" /\ row_params.overwrite
        /\ n > 0 /\ sb.scroll_lines[n].jtype = "pagelet"
        /\ sb.scroll_lines[n].pagelet_id = <<sb.buf_note, sb.current_scroll_count>>

scroll_buf_put_sb2(sb, line, offset, add_class, row_params, entry_index, current_dir, markup, sb2) ==
    LET count == sb2.current_scroll_count + 1
        entry == ScrollEntry(entry_index, offset, current_dir, row_params,
                                      add_class, <<sb.buf_note, count>>, line, markup)
    IN  IF sb2.exc # "" THEN sb2
                 ELSE [sb2 EXCEPT !.current_scroll_count = count,
                                  !.scroll_lines = Append(@, entry)]

\* scroll_buf_up up to the entry written or appended, before the length test
scroll_buf_put(sb, line, meta, offset, add_class, row_params, markup_in) ==
    LET is_prompt == offset # 0
        nonplain == ~is_prompt /\ row_params.jtype # ""
        entry_index == IF is_prompt THEN sb.entry_index + 1 ELSE sb.entry_index
        current_dir == IF is_prompt /\ meta.set THEN meta.dir ELSE << >>
        markup == IF is_prompt THEN "command" ELSE markup_in
        overwrite == nonplain /\ row_params.overwrite
        sb1 == [sb EXCEPT !.entry_index = entry_index,
                          !.cleared_current_dir =
                              IF is_prompt /\ ~sb.cleared_last
                              THEN [set |-> FALSE, dir |-> << >>] ELSE @,
                          !.cleared_last = IF is_prompt THEN FALSE ELSE @,
                          !.delete_blob_ids =
                              IF overwrite /\ sb.last_blob_id # ""
                              THEN Append(@, sb.last_blob_id) ELSE @,
                          !.last_blob_id = IF nonplain THEN row_params.blob ELSE @]
        n == Len(sb.scroll_lines)
        cur_pagelet_id == <<sb.buf_note, sb.current_scroll_count>>
        prev_pagelet == n > 0 /\ sb.scroll_lines[n].jtype = "pagelet"
        prev_edit_file == n > 0 /\ sb.scroll_lines[n].jtype = "edit_file"
    IN  IF InPlace(sb, offset, row_params)
        THEN \* Overwrite previous pagelet entry
             [sb1 EXCEPT !.scroll_lines[n] =
                      ScrollEntry(@.jindex, @.joffset, current_dir, row_params, add_class,
                                  cur_pagelet_id, line, markup),
                  !.last_scroll_count =
                      IF sb.current_scroll_count > 0
                         /\ sb.last_scroll_count >= sb.current_scroll_count
                      THEN sb.current_scroll_count - 1 ELSE @]
        ELSE \* New scroll entry
             scroll_buf_put_sb2(sb, line, offset, add_class, row_params, entry_index, current_dir, markup,
                     IF prev_edit_file \/ (prev_pagelet /\ sb.scroll_lines[n].form_input)
                        THEN blank_last_entry(sb1) ELSE sb1)

scroll_buf_up_put(sb, offset, row_params, put) ==
    IF put.exc # "" \/ InPlace(sb, offset, row_params) THEN put ELSE Evict(put)

scroll_buf_up(sb, line, meta, offset, add_class, row_params, markup_in) ==
    scroll_buf_up_put(sb, offset, row_params,
                      scroll_buf_put(sb, line, meta, offset, add_class, row_params, markup_in))

append_scroll(sb, scroll_lines) ==
    [sb EXCEPT !.current_scroll_count = @ + Len(scroll_lines),
               !.scroll_lines = @ \o scroll_lines]

\* the entries of update_scroll that strip_prompt_lines keeps
StartsWithAny(line, prompts) == \E k \in 1..Len(prompts) : StartsWith(line, prompts[k])

ERROR_WORD == <<101, 114, 114, 111, 114>>

lower(line) == [k \in 1..Len(line) |-> IF line[k] >= 65 /\ line[k] <= 90 THEN line[k] + 32
                                        ELSE line[k]]

RECURSIVE StripLoop(_, _, _, _, _)
StripLoop(entries, note_prompts, trunc_scroll, block_scroll, prev_prompt_entry) ==
    IF entries = << >> THEN trunc_scroll \o block_scroll
    ELSE LET entry == entries[1]
         IN  IF StartsWithAny(entry.line, note_prompts)
             THEN StripLoop(Tail(entries), note_prompts, trunc_scroll \o block_scroll,
                            << >>, <<entry>>)
             ELSE IF Find(lower(entry.line), ERROR_WORD) >= 0 /\ prev_prompt_entry # << >>
                  THEN StripLoop(Tail(entries), note_prompts, trunc_scroll,
                                 prev_prompt_entry \o Append(block_scroll, entry), << >>)
                  ELSE StripLoop(Tail(entries), note_prompts, trunc_scroll,
                                 Append(block_scroll, entry), prev_prompt_entry)

strip_prompt_lines(update_scroll, note_prompts) ==
    StripLoop(update_scroll, note_prompts, << >>, << >>, << >>)

RowUpdate_offset(j, new_row, note_prompts, new_row_str, offset) ==
    [row |-> j, offset |-> offset,
         note_prompt |-> note_prompts # << >> /\ offset = 0
                         /\ StartsWith(new_row_str, note_prompts[1]),
         text |-> dump(new_row, TRUE)]

RowUpdate_new_row_str(j, new_row, meta, pdelim, note_prompts, new_row_str) ==
    RowUpdate_offset(j, new_row, note_prompts, new_row_str,
            prompt_offset(new_row_str, pdelim, meta))

\* One entry of update_rows: the row number, its prompt offset, the
\* note_prompt option and the row's text (dumprichtext with trim).
RowUpdate(j, new_row, meta, pdelim, note_prompts) ==
    RowUpdate_new_row_str(j, new_row, meta, pdelim, note_prompts, dump(new_row, FALSE))

\* the loop of ScreenBuf.update over the rows: an entry for each row of rows
RECURSIVE UpdateRows(_, _, _, _, _, _, _)
UpdateRows(j, row_count, rows, screen, width, pdelim, note_prompts) ==
    IF j >= row_count THEN << >>
    ELSE (IF j \in rows
          THEN <<RowUpdate(j, PySlice(screen.data, width * j, width * (j + 1)),
                           screen.meta[PyIndex(j, Len(screen.meta))], pdelim, note_prompts)>>
          ELSE << >>) \o UpdateRows(j + 1, row_count, rows, screen, width, pdelim, note_prompts)

\* a variant that returns the whole scroll history every time
UpdateScrollAll(sb, reconnecting) == sb.scroll_lines

\* the scroll lines ScreenBuf.update returns: those added since the last update
UpdateScroll(sb, reconnecting) ==
    IF reconnecting THEN sb.scroll_lines
    ELSE IF sb.last_scroll_count < sb.current_scroll_count
    THEN PySlice(sb.scroll_lines, sb.last_scroll_count - sb.current_scroll_count,
                 Len(sb.scroll_lines))
    ELSE << >>

ScreenBuf_update_rows(sb, width, height, cursorx, cursory, main_screen, alt_screen, pdelim, note_prompts, reconnecting, resized, full_update, screen, row_count, rows) ==
    LET bad == \E j \in rows : ~PyIndexOk(j, Len(screen.meta))
        n == Len(sb.scroll_lines)
        update_scroll == UpdateScroll(sb, reconnecting)
        sb1 == [sb EXCEPT !.width = IF resized THEN width ELSE @,
                          !.height = IF resized THEN height ELSE @]
    IN  IF bad THEN [sb |-> [sb1 EXCEPT !.exc = "IndexError"], full_update |-> full_update,
                     update_rows |-> << >>, update_scroll |-> << >>]
        ELSE [sb |-> IF reconnecting THEN sb1
                     ELSE [sb1 EXCEPT !.last_scroll_count = sb.current_scroll_count,
                                      !.full_update = FALSE,
                                      !.cursorx = cursorx, !.cursory = cursory,
                                      !.main_screen = make_copy(main_screen),
                                      !.alt_screen = IF alt_screen.set
                                                     THEN make_copy(alt_screen)
                                                     ELSE NoScreen],
              full_update |-> full_update,
              update_rows |-> UpdateRows(0, row_count, rows, screen, width, pdelim,
                                         note_prompts),
              update_scroll |-> update_scroll]

\* ScreenBuf.update: [sb, full_update, update_rows, update_scroll]
ScreenBuf_update(sb, active_rows, width, height, cursorx, cursory, main_screen, alt_screen, pdelim, note_prompts, reconnecting) ==
    LET resized == ~reconnecting /\ (width # sb.width \/ height # sb.height)
        full_update == sb.full_update \/ reconnecting \/ resized
                       \/ (alt_screen.set # sb.alt_screen.set)
        screen == IF alt_screen.set THEN alt_screen ELSE main_screen
        old_screen == IF alt_screen.set THEN sb.alt_screen ELSE sb.main_screen
        row_count == IF alt_screen.set THEN height ELSE active_rows
        cursor_moved == cursorx # sb.cursorx \/ cursory # sb.cursory
    IN  ScreenBuf_update_rows(sb, width, height, cursorx, cursory, main_screen, alt_screen, pdelim, note_prompts, reconnecting, resized, full_update, screen, row_count,
            {j \in 0..(row_count - 1) :
                    \/ full_update
                    \/ ~old_screen.set
                    \/ PySlice(screen.data, width * j, width * (j + 1))
                          # PySlice(old_screen.data, width * j, width * (j + 1))
                    \/ (cursor_moved /\ (cursory = j \/ sb.cursory = j))})

---------------------------------------------------------------------------
(* Screen and Terminal *)

Screen(width, height) ==
    [set |-> TRUE, data |-> create_array(0, width * height), meta |-> Repeat(NoMeta, Max(height, 0))]

NoAltScreen == [set |-> FALSE, data |-> << >>, meta |-> << >>]

NoCells == [active |-> FALSE, maxIndex |-> 0, curIndex |-> 0, cellIndices |-> << >>,
            cells |-> << >>]

\* self.screen: main_screen, alt_screen, or (after ESC c, which makes new
\* Screen objects without rebinding self.screen) the orphaned old one
Scr(t) == CASE t.screen = "main" -> t.main_screen
            [] t.screen = "alt" -> t.alt_screen
            [] OTHER -> t.stale_screen

SetScr(t, scr) == CASE t.screen = "main" -> [t EXCEPT !.main_screen = scr]
                    [] t.screen = "alt" -> [t EXCEPT !.alt_screen = scr]
                    [] OTHER -> [t EXCEPT !.stale_screen = scr]

Raise(t, e) == [t EXCEPT !.exc = e]

reset(t) ==
    [t EXCEPT !.update_time = 0,
              !.needs_updating = TRUE,
              !.stale_screen = IF t.screen = "main" THEN t.main_screen
                               ELSE IF t.screen = "alt" THEN t.alt_screen ELSE @,
              !.screen = "stale",
              !.main_screen = Screen(t.width, t.height),
              !.alt_screen = Screen(t.width, t.height),
              !.scroll_top = 0,
              !.scroll_bot = IF t.note_cells.active THEN 0 ELSE t.height - 1,
              !.cursor_x_bak = 0, !.cursor_x = 0,
              !.cursor_y_bak = 0, !.cursor_y = 0,
              !.cursor_eol = 0,
              !.outbuf = << >>,
              !.active_rows = 0,
              !.current_dir = << >>,
              !.current_meta = NoMeta,
              !.gterm_code = 0,
              !.gterm_buf = [set |-> FALSE, data |-> << >>],
              !.gterm_buf_size = 0,
              !.gterm_entry_index = NoneInt,
              !.gterm_validated = FALSE,
              !.gterm_output_buf = << >>]

zero(t, y1, x1, y2, x2) ==
    LET w == t.width * (y2 - y1) + x2 - x1 + 1
        z == create_array(0, w)
        scr == Scr(t)
    IN  SetScr(t, [scr EXCEPT !.data = PySliceAssign(@, t.width * y1 + x1,
                                                      t.width * y2 + x2 + 1, z)])

zero_lines_t1(y1, y2, t1) ==
    LET scr == Scr(t1)
    IN  SetScr(t1, [scr EXCEPT !.meta = PySliceAssign(@, y1, y2 + 1,
                                                       Repeat(NoMeta, Max(y2 + 1 - y1, 0)))])

zero_lines(t, y1, y2) ==
    zero_lines_t1(y1, y2, zero(t, y1, 0, y2, t.width - 1))

zero_screen(t) == zero_lines(t, 0, t.height - 1)

peek(t, y1, x1, y2, x2) == PySlice(Scr(t).data, t.width * y1 + x1, t.width * y2 + x2)

poke_t1(t, y, t1) ==
    IF ~t.alt_mode THEN [t1 EXCEPT !.active_rows = Max(y + 1, @)] ELSE t1

poke(t, y, x, s) ==
    LET pos == t.width * y + x
        scr == Scr(t)
    IN  poke_t1(t, y, SetScr(t, [scr EXCEPT !.data = PySliceAssign(@, pos, pos + Len(s), s)]))

scroll_up_p(y1, y2, p) ==
    LET scr == Scr(p)
    IN  SetScr(p, [scr EXCEPT !.meta =
                                     PySliceAssign(@, y1, y2, PySlice(scr.meta, y1 + 1, y2 + 1))])

scroll_up(t, y1, y2) ==
    LET t1 == IF y2 > y1
              THEN scroll_up_p(y1, y2, poke(t, y1, 0, peek(t, y1 + 1, 0, y2, t.width)))ELSE t
    IN  zero_lines(t1, y2, y2)

scroll_down_p(y1, y2, p) ==
    LET scr == Scr(p)
    IN  SetScr(p, [scr EXCEPT !.meta =
                                     PySliceAssign(@, y1 + 1, y2 + 1, PySlice(scr.meta, y1, y2))])

scroll_down(t, y1, y2) ==
    LET t1 == IF y2 > y1
              THEN scroll_down_p(y1, y2, poke(t, y1 + 1, 0, peek(t, y1, 0, y2 - 1, t.width)))ELSE t
    IN  zero_lines(t1, y1, y1)

scroll_right(t, y, x) ==
    zero(poke(t, y, x + 1, peek(t, y, x, y, t.width - 1)), y, x, y, x)

MetaAt(scr, i) == scr.meta[PyIndex(i, Len(scr.meta))]

SetMetaAt(scr, i, m) == [scr EXCEPT !.meta[PyIndex(i, Len(scr.meta))] = m]

FirstToken_ends(line, a, ends) ==
    LET b == CHOOSE k \in ends : \A m \in ends : k <= m
    IN  SubSeq(line, a, b)

FirstToken_starts(line, starts) ==
    IF starts = {} THEN << >>
        ELSE LET a == CHOOSE k \in starts : \A m \in starts : k <= m
             IN  FirstToken_ends(line, a, {k \in a..Len(line) : k = Len(line) \/ line[k + 1] = SPACE})

\* the first token of a command line (shlex quoting is left out); << >> if none
FirstToken(line) ==
    FirstToken_starts(line, {k \in 1..Len(line) : line[k] # SPACE})

parse_command_tok(t, tok) ==
    IF tok = << >> THEN t ELSE [t EXCEPT !.command_path = tok]

parse_command_line(t, line) ==
    LET offset == prompt_offset(line, t.pdelim, t.current_meta)
    IN  parse_command_tok(t, FirstToken(PySlice(line, offset, Len(line))))

parse_command(t) ==
    IF ~t.alt_mode /\ t.current_meta.set /\ t.current_meta.cont = 0
    THEN parse_command_line(t, dump(peek(t, t.cursor_y, 0, t.cursor_y, t.width), TRUE))ELSE t

\* scroll_buf_up on the ScreenBuf retirement goes to: the notebook's while
\* notebook mode is active, else the main one
RetireBuf(t) == IF t.note_cells.active THEN t.note_screen_buf ELSE t.screen_buf

\* the retired row stored in the main ScreenBuf whatever the mode
SetRetireBufMain(t, sb) ==
    LET t1 == [t EXCEPT !.screen_buf = [sb EXCEPT !.exc = ""]]
    IN  IF sb.exc # "" THEN Raise(t1, sb.exc) ELSE t1

SetRetireBuf(t, sb) ==
    LET t1 == IF t.note_cells.active THEN [t EXCEPT !.note_screen_buf = [sb EXCEPT !.exc = ""]]
              ELSE [t EXCEPT !.screen_buf = [sb EXCEPT !.exc = ""]]
    IN  IF sb.exc # "" THEN Raise(t1, sb.exc) ELSE t1

cursor_down_t3(t3) ==
    IF t3.exc # "" \/ t3.alt_mode THEN t3
                      ELSE LET t4 == [t3 EXCEPT !.active_rows = Max(t3.cursor_y + 1, @)]
                               scr == Scr(t4)
                               i == t4.active_rows - 1
                           IN  IF ~t4.current_meta.set THEN t4
                               ELSE IF ~PyIndexOk(i, Len(scr.meta)) THEN Raise(t4, "IndexError")
                               ELSE IF MetaAt(scr, i).set THEN t4
                               ELSE LET m == Meta(t4.current_meta.dir, t4.current_meta.cont + 1)
                                    IN  SetScr([t4 EXCEPT !.current_meta = m],
                                               SetMetaAt(scr, i, m))

cursor_down_t2(t, q, r, t2) ==
    cursor_down_t3(IF t2.exc # "" THEN t2
                            ELSE IF q # 0
                            THEN [scroll_up(t2, t.scroll_top, t.scroll_bot)
                                     EXCEPT !.cursor_y = t.scroll_bot]
                            ELSE [t2 EXCEPT !.cursor_y = r])

cursor_down_row(t, t1, q, r, row) ==
    LET top_ok == PyIndexOk(t.scroll_top, Len(Scr(t1).meta))
        top_meta == MetaAt(Scr(t1), t.scroll_top)
    IN  cursor_down_t2(t, q, r,
                          IF q # 0
                            THEN IF t.note_cells.active \/ ~t.alt_mode
                                 THEN IF ~top_ok THEN Raise(t1, "IndexError")
                                      ELSE SetRetireBuf(t1,
                                             scroll_buf_up(RetireBuf(t1), dump(row, TRUE), top_meta,
                                                 prompt_offset(dump(row, FALSE), t.pdelim, top_meta),
                                                 "", PlainParams, "none"))
                                 ELSE t1
                            ELSE t1)

cursor_down_t1(t, t1) ==
    IF t.scroll_bot + 1 = 0 THEN Raise(t1, "ZeroDivisionError")
             ELSE LET q == (t.cursor_y + 1) \div (t.scroll_bot + 1)
                      r == (t.cursor_y + 1) % (t.scroll_bot + 1)
                  IN  cursor_down_row(t, t1, q, r, peek(t1, t.scroll_top, 0, t.scroll_top, t.width))

cursor_down(t) ==
    IF t.cursor_y >= t.scroll_top /\ t.cursor_y <= t.scroll_bot
    THEN cursor_down_t1(t, parse_command([t EXCEPT !.cursor_eol = 0]))ELSE t

cursor_right(t) ==
    LET q == (t.cursor_x + 1) \div t.width
        r == (t.cursor_x + 1) % t.width
    IN  IF q # 0 THEN [t EXCEPT !.cursor_eol = 1] ELSE [t EXCEPT !.cursor_x = r]

expect_prompt(t, current_directory) ==
    LET t1 == [t EXCEPT !.command_path = << >>, !.current_dir = current_directory]
        scr == Scr(t1)
    IN  IF t.active_rows = 0 \/ t.cursor_y + 1 = t.active_rows
        THEN IF ~PyIndexOk(t.cursor_y, Len(scr.meta))
             THEN Raise([t1 EXCEPT !.current_meta = Meta(current_directory, 0)], "IndexError")
             ELSE SetScr([t1 EXCEPT !.current_meta = Meta(current_directory, 0)],
                         SetMetaAt(scr, t.cursor_y, Meta(current_directory, 0)))
        ELSE t1

enter(t) == [parse_command(t) EXCEPT !.current_meta = NoMeta]

echo_t2(t2) ==
    IF ~t2.alt_mode THEN [t2 EXCEPT !.active_rows = Max(t2.cursor_y + 1, @)] ELSE t2

echo_t1(t, char, t1) ==
    LET scr == Scr(t1)
        idx == t1.cursor_y * t1.width + t1.cursor_x
    IN  IF t1.exc # "" THEN [t1 EXCEPT !.cursor_x = t.cursor_x]
        ELSE IF ~PyIndexOk(idx, Len(scr.data)) THEN Raise(t1, "IndexError")
        ELSE echo_t2(cursor_right(SetScr(t1, [scr EXCEPT !.data[PyIndex(idx, Len(scr.data))] = char])))

\* echo of one byte below 0x80 (the UTF-8 continuation buffer is left out)
echo(t, char) ==
    echo_t1(t, char, IF t.cursor_eol # 0 THEN [cursor_down(t) EXCEPT !.cursor_x = 0] ELSE t)

esc_0x08(t) == [t EXCEPT !.cursor_x = Max(0, t.cursor_x - 1)]

esc_0x09(t) ==
    LET x == t.cursor_x + 8
        q == x \div 8
    IN  [t EXCEPT !.cursor_x = (q * 8) % t.width]

esc_0x0a(t) == cursor_down(t)

esc_0x0d(t) == [t EXCEPT !.cursor_eol = 0, !.cursor_x = 0]

esc_save(t) == [t EXCEPT !.cursor_x_bak = t.cursor_x, !.cursor_y_bak = t.cursor_y]

esc_restore(t) ==
    LET t1 == [t EXCEPT !.cursor_x = t.cursor_x_bak, !.cursor_y = t.cursor_y_bak, !.cursor_eol = 0]
    IN  IF ~t.alt_mode THEN [t1 EXCEPT !.active_rows = Max(t1.cursor_y + 1, @)] ELSE t1

\* the replies are kept by kind: "da", "sda", "tpr", "sr", and "cpr" for the
\* report of the cursor position (the numbers in it are left out)
esc_da(t) == [t EXCEPT !.outbuf = <<"da">>]
esc_sda(t) == [t EXCEPT !.outbuf = <<"sda">>]
esc_tpr(t) == [t EXCEPT !.outbuf = <<"tpr">>]
esc_sr(t) == [t EXCEPT !.outbuf = <<"sr">>]
esc_cpr(t) == [t EXCEPT !.outbuf = <<"cpr">>]

esc_nel_t1(t1) ==
    IF t1.exc # "" THEN t1 ELSE [t1 EXCEPT !.cursor_x = 0]

esc_nel(t) == esc_nel_t1(cursor_down(t))

esc_ind(t) == cursor_down(t)

esc_ri_t1(t, t1) ==
    IF ~t.alt_mode THEN [t1 EXCEPT !.active_rows = Max(t1.cursor_y + 1, @)] ELSE t1

esc_ri(t) ==
    esc_ri_t1(t,
            IF t.cursor_y = t.scroll_top THEN scroll_down(t, t.scroll_top, t.scroll_bot)
              ELSE [t EXCEPT !.cursor_y = Max(t.scroll_top, t.cursor_y - 1)])

---------------------------------------------------------------------------
(* Retirement and the periodic update *)

\* the rows scroll_screen() retires when called without an argument: those
\* above the last active row that is a prompt row
RECURSIVE LastPromptRow(_, _, _)
LastPromptRow(t, pdelim, j) ==
    IF j < 0 THEN 0
    ELSE LET line == dump(PySlice(t.main_screen.data, t.width * j, t.width * (j + 1)), FALSE)
         IN  IF prompt_offset(line, pdelim, MetaAt(t.main_screen, j)) # 0 THEN j
             ELSE LastPromptRow(t, pdelim, j - 1)

\* the last row of the multiline command that starts at row cursor_y
RECURSIVE LastContinuation(_, _, _)
LastContinuation(t, cursor_y, scroll_rows) ==
    IF cursor_y < scroll_rows - 1 /\ MetaAt(t.main_screen, cursor_y + 1).set
       /\ MetaAt(t.main_screen, cursor_y + 1).cont # 0
    THEN LastContinuation(t, cursor_y + 1, scroll_rows) ELSE cursor_y

\* the while loop of scroll_screen: move scrolled active rows to the buffer
RECURSIVE RetireRows(_, _, _, _)
RetireRows_last_y(t, pdelim, cursor_y, scroll_rows, meta, offset, last_y) ==
    LET row == PySlice(t.main_screen.data, t.width * cursor_y, t.width * last_y + t.width)
    IN  RetireRows(SetRetireBuf(t, scroll_buf_up(RetireBuf(t), dump(row, TRUE), meta,
                                                     offset, "", PlainParams, "none")),
                        pdelim, last_y + 1, scroll_rows)

RetireRows(t, pdelim, cursor_y, scroll_rows) ==
    IF cursor_y >= scroll_rows \/ t.exc # "" THEN t
    ELSE LET first == PySlice(t.main_screen.data, t.width * cursor_y, t.width * cursor_y + t.width)
             meta == MetaAt(t.main_screen, cursor_y)
             offset == prompt_offset(dump(first, FALSE), pdelim, meta)
         IN  RetireRows_last_y(t, pdelim, cursor_y, scroll_rows, meta, offset,
                 IF meta.set THEN LastContinuation(t, cursor_y, scroll_rows) ELSE cursor_y)

scroll_screen_tail_t5(t1, t5) ==
    IF t1.exc # "" THEN t1
                 ELSE IF t5.active_rows = 0 THEN [t5 EXCEPT !.cursor_x = 0, !.cursor_eol = 0]
                 ELSE t5

scroll_screen_tail_t4(scroll_rows, t1, t4) ==
    scroll_screen_tail_t5(t1,
                     [zero_lines(t4, t4.active_rows, t4.height - 1)
                           EXCEPT !.cursor_y = Max(0, @ - scroll_rows)])

scroll_screen_tail_t3(scroll_rows, t1, t3) ==
    LET scr == Scr(t3)
    IN  scroll_screen_tail_t4(scroll_rows, t1,
                     IF t3.active_rows # 0
                       THEN SetScr(t3, [scr EXCEPT !.meta =
                               PySliceAssign(@, 0, t3.active_rows,
                                   PySlice(scr.meta, scroll_rows, scroll_rows + t3.active_rows))])
                       ELSE t3)

scroll_screen_tail_t1(scroll_rows, t1) ==
    LET t2 == IF scroll_rows < t1.active_rows
                       THEN poke(t1, 0, 0, peek(t1, scroll_rows, 0, t1.active_rows - 1, t1.width))
                       ELSE t1
    IN  scroll_screen_tail_t3(scroll_rows, t1, [t2 EXCEPT !.active_rows = @ - scroll_rows])

scroll_screen_tail_scroll_rows(t, pdelim, scroll_rows) ==
    IF scroll_rows = 0 THEN t
        ELSE scroll_screen_tail_t1(scroll_rows, RetireRows(t, pdelim, 0, scroll_rows))

\* scroll_screen, had it retired every row above the last active row
scroll_screen_tail(t, rows_arg) ==
    LET pdelim == IF t.note_cells.active THEN NoPdelim ELSE t.pdelim
    IN  scroll_screen_tail_scroll_rows(t, pdelim,
            IF rows_arg = NoneInt THEN Max(t.active_rows - 1, 0)
                       ELSE rows_arg)

scroll_screen_t5(t1, t5) ==
    IF t1.exc # "" THEN t1
                 ELSE IF t5.active_rows = 0 THEN [t5 EXCEPT !.cursor_x = 0, !.cursor_eol = 0]
                 ELSE t5

scroll_screen_t4(scroll_rows, t1, t4) ==
    scroll_screen_t5(t1,
                     [zero_lines(t4, t4.active_rows, t4.height - 1)
                           EXCEPT !.cursor_y = Max(0, @ - scroll_rows)])

scroll_screen_t3(scroll_rows, t1, t3) ==
    LET scr == Scr(t3)
    IN  scroll_screen_t4(scroll_rows, t1,
                     IF t3.active_rows # 0
                       THEN SetScr(t3, [scr EXCEPT !.meta =
                               PySliceAssign(@, 0, t3.active_rows,
                                   PySlice(scr.meta, scroll_rows, scroll_rows + t3.active_rows))])
                       ELSE t3)

scroll_screen_t1(scroll_rows, t1) ==
    LET t2 == IF scroll_rows < t1.active_rows
                       THEN poke(t1, 0, 0, peek(t1, scroll_rows, 0, t1.active_rows - 1, t1.width))
                       ELSE t1
    IN  scroll_screen_t3(scroll_rows, t1, [t2 EXCEPT !.active_rows = @ - scroll_rows])

scroll_screen_scroll_rows(t, pdelim, scroll_rows) ==
    IF scroll_rows = 0 THEN t
        ELSE scroll_screen_t1(scroll_rows, RetireRows(t, pdelim, 0, scroll_rows))

scroll_screen_pdelim(t, rows_arg, pdelim) ==
    scroll_screen_scroll_rows(t, pdelim,
            IF rows_arg = NoneInt THEN LastPromptRow(t, pdelim, t.active_rows - 1)
                       ELSE rows_arg)

\* scroll_screen(scroll_rows); scroll_rows = NoneInt is the call without argument
scroll_screen(t, rows_arg) ==
    scroll_screen_pdelim(t, rows_arg, IF t.note_cells.active THEN NoPdelim ELSE t.pdelim)

\* A callback event.  kind, then the arguments the claims read.
Event(kind, alt_mode, full_update, update_rows, update_scroll, blob) ==
    [kind |-> kind, alt_mode |-> alt_mode, full_update |-> full_update,
     update_rows |-> update_rows, update_scroll |-> update_scroll, blob |-> blob]

SimpleEvent(kind) == Event(kind, FALSE, FALSE, << >>, << >>, "")

BlobEvent(kind, blob) == Event(kind, FALSE, FALSE, << >>, << >>, blob)

screen_callback(t, ev) == [t EXCEPT !.cb = Append(@, ev)]

DeleteBlobEvents(ids) == [k \in 1..Len(ids) |-> BlobEvent("delete_blob", ids[k])]

update_callback_t2a(t, reconnecting, u, t2a) ==
    IF ~t.note_cells.active /\ ~reconnecting
                          /\ (u.update_rows # << >> \/ u.update_scroll # << >>)
                       THEN [t2a EXCEPT !.gterm_output_buf = << >>] ELSE t2a
        \* deleted blobs of the notebook buffer: the loop runs only over an empty list

update_callback_t5a(reconnecting, v, scroll, t5a) ==
    IF ~reconnecting /\ (v.update_rows # << >> \/ scroll # << >>)
                       THEN [t5a EXCEPT !.gterm_output_buf = << >>] ELSE t5a

update_callback_scroll(reconnecting, t4, v, scroll) ==
    update_callback_t5a(reconnecting, v, scroll,
                           screen_callback([t4 EXCEPT !.note_screen_buf = v.sb],
                                  Event("note_row_update", FALSE, v.full_update,
                                        v.update_rows, scroll, "")))

update_callback_v(t, reconnecting, t2, t4, v) ==
    LET t5 == IF v.sb.exc # "" THEN Raise(t4, v.sb.exc)
              ELSE update_callback_scroll(reconnecting, t4, v,
                           strip_prompt_lines(v.update_scroll, t.note_prompts))
    IN  IF t2.exc # "" \/ ~t.note_cells.active THEN t2 ELSE t5

update_callback_t4(t, reconnecting, t2, t4) ==
    update_callback_v(t, reconnecting, t2, t4,
            ScreenBuf_update(t4.note_screen_buf, t.active_rows, t.width, t.height,
                              t.cursor_x, t.cursor_y, t.main_screen, NoAltScreen,
                              NoPdelim, t.note_prompts, reconnecting))

update_callback_t2(t, reconnecting, t2) ==
    LET t3 == IF t2.note_screen_buf.delete_blob_ids = << >>
              THEN [t2 EXCEPT !.note_screen_buf.delete_blob_ids = << >>] ELSE t2
    IN  update_callback_t4(t, reconnecting, t2,
            IF reconnecting
              THEN [t3 EXCEPT !.cb = @ \o <<SimpleEvent("note_activate")>>
                                      \o [k \in 1..Len(t.note_cells.cellIndices) |->
                                             SimpleEvent("note_add_cell")]]
              ELSE t3)

update_callback_u(t, reconnecting, t1, main_part, u) ==
    update_callback_t2(t, reconnecting,
            IF ~main_part THEN t1
              ELSE IF u.sb.exc # "" THEN Raise(t1, u.sb.exc)
              ELSE update_callback_t2a(t, reconnecting, u,
                           screen_callback([t1 EXCEPT !.screen_buf = u.sb],
                                 Event("row_update", t.alt_mode, u.full_update,
                                       u.update_rows, u.update_scroll, ""))))

update_callback_alt_screen(t, reconnecting, t1, main_part, alt_screen) ==
    update_callback_u(t, reconnecting, t1, main_part,
            IF t.note_cells.active
             THEN ScreenBuf_update(t1.screen_buf, 0, t.width, t.height, 0, 0, t.main_screen,
                                   alt_screen, t.pdelim, << >>, reconnecting)
             ELSE ScreenBuf_update(t1.screen_buf, t.active_rows, t.width, t.height,
                                   t.cursor_x, t.cursor_y, t.main_screen,
                                   alt_screen, t.pdelim, << >>, reconnecting))

 \* deleted blobs of the main buffer
update_callback_t1(t, reconnecting, t1) ==
    LET main_part == ~t.note_cells.active \/ t.screen_buf.full_update \/ reconnecting
    IN  update_callback_alt_screen(t, reconnecting, t1, main_part,
            IF t.alt_mode THEN t.alt_screen ELSE NoAltScreen)

update_callback(t, reconnecting) ==
    update_callback_t1(t, reconnecting,
            IF ~t.note_cells.active /\ t.screen_buf.delete_blob_ids # << >>
              THEN [t EXCEPT !.cb = @ \o DeleteBlobEvents(t.screen_buf.delete_blob_ids),
                             !.screen_buf.delete_blob_ids = << >>]
              ELSE t)

update_t2(t2) ==
    IF t2.exc # "" THEN t2 ELSE update_callback(t2, FALSE)

update(t) ==
    LET t1 == [t EXCEPT !.update_time = t.time, !.needs_updating = FALSE]
    IN  update_t2(IF ~t.alt_mode THEN scroll_screen(t1, NoneInt) ELSE t1)

reconnect_as_update_t1(t1) ==
    IF t1.exc # "" \/ t1.gterm_output_buf = << >> THEN t1
        ELSE screen_callback(t1, SimpleEvent("graphterm_output"))

\* a variant that answers a reconnect with an ordinary update
reconnect_as_update(t) ==
    reconnect_as_update_t1(update_callback(t, FALSE))

reconnect_t1(t1) ==
    IF t1.exc # "" \/ t1.gterm_output_buf = << >> THEN t1
        ELSE screen_callback(t1, SimpleEvent("graphterm_output"))

reconnect(t) ==
    reconnect_t1(update_callback(t, TRUE))

---------------------------------------------------------------------------
(* CSI handlers.  l is the parameter list; l[1] is the code's l[0]. *)

\* for i in range(n): scroll_right(cursor_y, cursor_x)
RECURSIVE InsertLoop(_, _)
InsertLoop(n, t) ==
    IF n <= 0 THEN t ELSE InsertLoop(n - 1, scroll_right(t, t.cursor_y, t.cursor_x))

csi_at(t, l) == InsertLoop(l[1], t)

csi_A(t, l) == [t EXCEPT !.cursor_y = Max(t.scroll_top, t.cursor_y - l[1])]

csi_B(t, l) ==
    LET t1 == [t EXCEPT !.cursor_y = Min(t.scroll_bot, t.cursor_y + l[1])]
    IN  IF ~t.alt_mode THEN [t1 EXCEPT !.active_rows = Max(t1.cursor_y + 1, @)] ELSE t1

csi_C(t, l) == [t EXCEPT !.cursor_x = Min(t.width - 1, t.cursor_x + l[1]), !.cursor_eol = 0]

csi_D(t, l) == [t EXCEPT !.cursor_x = Max(0, t.cursor_x - l[1]), !.cursor_eol = 0]

csi_E(t, l) == [csi_B(t, l) EXCEPT !.cursor_x = 0, !.cursor_eol = 0]

csi_F(t, l) == [csi_A(t, l) EXCEPT !.cursor_x = 0, !.cursor_eol = 0]

csi_G(t, l) == [t EXCEPT !.cursor_x = Min(t.width, l[1]) - 1]

csi_H(t, l0) ==
    LET l == IF Len(l0) < 2 THEN <<1, 1>> ELSE l0
        t1 == [t EXCEPT !.cursor_x = Min(t.width, l[2]) - 1,
                        !.cursor_y = Min(t.height, l[1]) - 1,
                        !.cursor_eol = 0]
    IN  IF ~t.alt_mode THEN [t1 EXCEPT !.active_rows = Max(t1.cursor_y + 1, @)] ELSE t1

csi_J(t, l) ==
    IF l[1] = 0
    THEN IF t.cursor_x = 0 THEN zero_lines(t, t.cursor_y, t.height - 1)
         ELSE zero(t, t.cursor_y, t.cursor_x, t.height - 1, t.width - 1)
    ELSE IF l[1] = 1
    THEN IF t.cursor_x = t.width - 1 THEN zero_lines(t, 0, t.cursor_y)
         ELSE zero(t, 0, 0, t.cursor_y, t.cursor_x)
    ELSE IF l[1] = 2 THEN zero_screen(t)
    ELSE t

csi_K(t, l) ==
    IF l[1] = 0 THEN zero(t, t.cursor_y, t.cursor_x, t.cursor_y, t.width - 1)
    ELSE IF l[1] = 1 THEN zero(t, t.cursor_y, 0, t.cursor_y, t.cursor_x)
    ELSE IF l[1] = 2 THEN zero_lines(t, t.cursor_y, t.cursor_y)
    ELSE t

RECURSIVE InsertLines(_, _)
InsertLines(n, t) ==
    IF n <= 0 THEN t
    ELSE InsertLines(n - 1, IF t.cursor_y < t.scroll_bot
                            THEN scroll_down(t, t.cursor_y, t.scroll_bot) ELSE t)

csi_L(t, l) == InsertLines(l[1], t)

RECURSIVE DeleteLines(_, _)
DeleteLines(n, t) ==
    IF n <= 0 THEN t ELSE DeleteLines(n - 1, scroll_up(t, t.cursor_y, t.scroll_bot))

csi_M(t, l) ==
    IF t.cursor_y >= t.scroll_top /\ t.cursor_y <= t.scroll_bot THEN DeleteLines(l[1], t)
    ELSE t

csi_P_end(t, l, end) ==
    poke(csi_K(t, <<0>>), t.cursor_y, t.cursor_x, PySlice(end, l[1], Len(end)))

csi_P(t, l) ==
    csi_P_end(t, l, peek(t, t.cursor_y, t.cursor_x, t.cursor_y, t.width))

csi_X(t, l) == zero(t, t.cursor_y, t.cursor_x, t.cursor_y, t.cursor_x + l[1])

csi_d(t, l) ==
    LET t1 == [t EXCEPT !.cursor_y = Min(t.height, l[1]) - 1]
    IN  IF ~t.alt_mode THEN [t1 EXCEPT !.active_rows = Max(t1.cursor_y + 1, @)] ELSE t1

\* a variant that accepts any cookie
gterm_validated_any(t, l) == Len(l) >= 2

\* csi_h: len(l) >= 2 and str(l[1]) == self.cookie
gterm_validated(t, l) == Len(l) >= 2 /\ l[2] = t.cookie

csi_h_t1(l, t1) ==
    IF l[1] # PROMPT_CODE THEN scroll_screen(t1, t1.active_rows) ELSE t1

csi_h(t, l) ==
    IF l[1] \in GRAPHTERM_SCREEN_CODES
    THEN IF ~t.alt_mode
         THEN csi_h_t1(l,
                      [t EXCEPT !.gterm_code = l[1],
                                  !.gterm_validated = gterm_validated(t, l),
                                  !.gterm_buf = [set |-> TRUE, data |-> << >>],
                                  !.gterm_buf_size = 0,
                                  !.gterm_entry_index = t.screen_buf.entry_index + 1])ELSE t
    ELSE IF l[1] \in ALTERNATE_SCREEN_CODES
    THEN zero_screen([t EXCEPT !.alt_mode = TRUE, !.screen = "alt"])
    ELSE t

csi_l(t, l) ==
    IF l[1] \in GRAPHTERM_SCREEN_CODES THEN t
    ELSE IF l[1] \in ALTERNATE_SCREEN_CODES
    THEN [t EXCEPT !.alt_mode = FALSE, !.screen = "main",
                   !.cursor_y = Max(0, t.active_rows - 1), !.cursor_x = 0]
    ELSE t

\* csi_r without the last line, scroll_bot = max(scroll_top, scroll_bot)
csi_r_unordered(t, l0) ==
    LET l == IF Len(l0) < 2 THEN <<1, t.height>> ELSE l0
        top == Min(t.height - 1, l[1] - 1)
        bot == Min(t.height - 1, l[2] - 1)
    IN  [t EXCEPT !.scroll_top = top, !.scroll_bot = bot]

csi_r(t, l0) ==
    LET l == IF Len(l0) < 2 THEN <<1, t.height>> ELSE l0
        top == Min(t.height - 1, l[1] - 1)
        bot == Min(t.height - 1, l[2] - 1)
    IN  [t EXCEPT !.scroll_top = top, !.scroll_bot = Max(top, bot)]

\* the parameters of a CSI sequence: int() of each component of s.split(";"),
\* or << >> when a component is not a number (the ValueError branch)
IsDigit(b) == b >= 48 /\ b <= 57

RECURSIVE ParseInts(_, _, _, _)
ParseInts(s, acc, cur, have) ==
    IF s = << >> THEN (IF have THEN Append(acc, cur) ELSE << >>)
    ELSE IF s[1] = SEMI THEN (IF have THEN ParseInts(Tail(s), Append(acc, cur), 0, FALSE)
                              ELSE << >>)
    ELSE ParseInts(Tail(s), acc, cur * 10 + (s[1] - 48), TRUE)

CSI_FINALS == {64, 65, 66, 67, 68, 69, 70, 71, 72, 74, 75, 76, 77, 80, 88, 97, 99, 100,
               101, 102, 103, 104, 108, 109, 110, 113, 114, 115, 116, 117, 96}

\* the regex \x1b\[\??([0-9;]*)([@A-...`]) against the whole pending buffer
MatchCSI(e) ==
    /\ Len(e) >= 3 /\ e[1] = ESC /\ e[2] = LBRACKET
    /\ e[Len(e)] \in CSI_FINALS
    /\ LET from == IF e[3] = QMARK /\ Len(e) >= 4 THEN 4 ELSE 3
       IN  \A k \in from..(Len(e) - 1) : IsDigit(e[k]) \/ e[k] = SEMI

CSIParams(e) ==
    LET from == IF e[3] = QMARK /\ Len(e) >= 4 THEN 4 ELSE 3
    IN  SubSeq(e, from, Len(e) - 1)

\* the regex \x1b\]([^\x07]+)\x07
MatchOSC(e) ==
    /\ Len(e) >= 4 /\ e[1] = ESC /\ e[2] = RBRACKET /\ e[Len(e)] = 7
    /\ \A k \in 3..(Len(e) - 1) : e[k] # 7

csi_dispatch_zero_parsed(t, c, parsed) ==
    LET default == <<0>>
        l == IF parsed = << >> THEN default ELSE parsed
    IN  CASE c = 64 -> csi_at(t, l)
          [] c = 65 -> csi_A(t, l)
          [] c \in {66, 101} -> csi_B(t, l)
          [] c \in {67, 97} -> csi_C(t, l)
          [] c = 68 -> csi_D(t, l)
          [] c = 69 -> csi_E(t, l)
          [] c = 70 -> csi_F(t, l)
          [] c \in {71, 96} -> csi_G(t, l)
          [] c \in {72, 102} -> csi_H(t, l)
          [] c = 74 -> csi_J(t, l)
          [] c = 75 -> csi_K(t, l)
          [] c = 76 -> csi_L(t, l)
          [] c = 77 -> csi_M(t, l)
          [] c = 80 -> csi_P(t, l)
          [] c = 88 -> csi_X(t, l)
          [] c = 100 -> csi_d(t, l)
          [] c = 104 -> csi_h(t, l)
          [] c = 108 -> csi_l(t, l)
          [] c = 114 -> csi_r(t, l)
          [] c = 115 -> esc_save(t)
          [] c = 117 -> esc_restore(t)
          [] OTHER -> t

\* csi_dispatch with [0] as the default of every sequence
csi_dispatch_zero(t, e) ==
    LET c == e[Len(e)]
    IN  csi_dispatch_zero_parsed(t, c, ParseInts(CSIParams(e), << >>, 0, FALSE))

csi_dispatch_parsed(t, c, parsed) ==
    LET default == IF c \in {74, 75} THEN <<0>> ELSE <<1>>
        l == IF parsed = << >> THEN default ELSE parsed
    IN  CASE c = 64 -> csi_at(t, l)
          [] c = 65 -> csi_A(t, l)
          [] c \in {66, 101} -> csi_B(t, l)
          [] c \in {67, 97} -> csi_C(t, l)
          [] c = 68 -> csi_D(t, l)
          [] c = 69 -> csi_E(t, l)
          [] c = 70 -> csi_F(t, l)
          [] c \in {71, 96} -> csi_G(t, l)
          [] c \in {72, 102} -> csi_H(t, l)
          [] c = 74 -> csi_J(t, l)
          [] c = 75 -> csi_K(t, l)
          [] c = 76 -> csi_L(t, l)
          [] c = 77 -> csi_M(t, l)
          [] c = 80 -> csi_P(t, l)
          [] c = 88 -> csi_X(t, l)
          [] c = 100 -> csi_d(t, l)
          [] c = 104 -> csi_h(t, l)
          [] c = 108 -> csi_l(t, l)
          [] c = 114 -> csi_r(t, l)
          [] c = 115 -> esc_save(t)
          [] c = 117 -> esc_restore(t)
          [] OTHER -> t

csi_dispatch(t, e) ==
    LET c == e[Len(e)]
    IN  csi_dispatch_parsed(t, c, ParseInts(CSIParams(e), << >>, 0, FALSE))

---------------------------------------------------------------------------
(* Pagelet payloads.  Tokens (bytes above 255) stand for fixed texts:      *)
(* HDR_* for a JSON header block with its blank line, by x_gterm_response; *)
(* DIR_* for a directive comment <!--gterm KIND OPTS-->.                   *)
HDR_EDIT == 301
HDR_BLOB == 302
HDR_FRAME == 303
HDR_OTHER == 304
DIR_BLOB1 == 311
DIR_BLOB2 == 312
DIR_OVER == 313
DIR_EDIT == 314
DIR_FORM == 315

HDR_TOKENS == {HDR_EDIT, HDR_BLOB, HDR_FRAME, HDR_OTHER}
DIR_TOKENS == {DIR_BLOB1, DIR_BLOB2, DIR_OVER, DIR_EDIT, DIR_FORM}

RECURSIVE LStrip(_)
LStrip(s) == IF s # << >> /\ s[1] \in {SPACE, HT, LF, CR} THEN LStrip(Tail(s)) ELSE s

\* parse_headers: the response type and the content
parse_headers(text) ==
    IF text # << >> /\ text[1] \in HDR_TOKENS
    THEN [x_gterm_response |->
              CASE text[1] = HDR_EDIT -> "edit_file"
                [] text[1] = HDR_BLOB -> "create_blob"
                [] text[1] = HDR_FRAME -> "frame_msg"
                [] OTHER -> "other",
          content |-> Tail(text)]
    ELSE [x_gterm_response |-> "", content |-> text]

DirectiveParams_c(c) ==
    IF c # << >> /\ c[1] \in DIR_TOKENS
        THEN CASE c[1] = DIR_BLOB1 -> PageletParams("pagelet", "b1", FALSE, FALSE)
               [] c[1] = DIR_BLOB2 -> PageletParams("pagelet", "b2", FALSE, FALSE)
               [] c[1] = DIR_OVER -> PageletParams("pagelet", "", TRUE, FALSE)
               [] c[1] = DIR_EDIT -> PageletParams("edit_file", "", FALSE, FALSE)
               [] OTHER -> PageletParams("pagelet", "", FALSE, TRUE)
        ELSE PageletParams("pagelet", "", FALSE, FALSE)

\* the row params of a raw HTML pagelet: those of its directive, if it has one
DirectiveParams(content) ==
    DirectiveParams_c(LStrip(content))

\* cgi.escape, the fallback of the unvalidated branch
RECURSIVE cgi_escape(_)
cgi_escape(s) ==
    IF s = << >> THEN << >>
    ELSE (CASE s[1] = 38 -> <<38, 97, 109, 112, 59>>
            [] s[1] = LT -> <<38, 108, 116, 59>>
            [] s[1] = 62 -> <<38, 103, 116, 59>>
            [] OTHER -> <<s[1]>>) \o cgi_escape(Tail(s))

FirstLine_ends(content, ends) ==
    IF ends = {} THEN content
        ELSE SubSeq(content, 1, (CHOOSE k \in ends : \A m \in ends : k <= m) - 1)

\* content.replace("\r\n","\n").replace("\r","\n").split("\n")[0]
FirstLine(content) ==
    FirstLine_ends(content, {k \in 1..Len(content) : content[k] \in {LF, CR}})

graphterm_output(t, response) ==
    screen_callback([t EXCEPT !.gterm_output_buf = <<response>>],
                    SimpleEvent("graphterm_output"))

Pagelet_headers(t, headers) ==
    LET response_type == headers.x_gterm_response
        content == headers.content
    IN  IF t.exc # "" THEN t
        ELSE IF ~t.gterm_validated
        THEN IF response_type # "" THEN graphterm_output(t, "pagelet")
             ELSE SetRetireBuf(t, scroll_buf_up(RetireBuf(t),
                                     FirstLine(cgi_escape(content)) \o <<DOT, DOT, DOT>>,
                                     NoMeta, 0, "", PlainParams, "none"))
        ELSE CASE response_type = "" ->
                    SetRetireBuf(t, scroll_buf_up(RetireBuf(t), << >>, NoMeta, 0, "",
                                                  DirectiveParams(content), "payload"))
               [] response_type = "create_blob" ->
                    screen_callback(t, BlobEvent("create_blob", "b1"))
               [] response_type = "frame_msg" ->
                    screen_callback(t, SimpleEvent("frame_msg"))
               [] response_type = "edit_file" ->
                    graphterm_output([t EXCEPT !.file_read = TRUE], "edit_file")
               [] OTHER -> graphterm_output(t, response_type)

Pagelet_t(t0, t) ==
    LET gterm_output == LStrip(t0.gterm_buf.data)
    IN  Pagelet_headers(t, parse_headers(gterm_output))

\* the pagelet branch of gterm_append
Pagelet(t0) ==
    Pagelet_t(t0, update(t0))

gterm_append_t2(at, retval, t1, t2) ==
    IF at < 0 THEN [t |-> t1, retval |-> << >>]
        ELSE IF t2.exc # "" THEN [t |-> t2, retval |-> << >>]
        ELSE [t |-> [t2 EXCEPT !.gterm_code = 0,
                               !.gterm_buf = [set |-> FALSE, data |-> << >>],
                               !.gterm_buf_size = 0,
                               !.gterm_validated = FALSE,
                               !.gterm_entry_index = NoneInt],
              retval |-> retval]

gterm_append_t1(t, at, retval, size, t1) ==
    LET current_dir == t1.gterm_buf.data
    IN  gterm_append_t2(at, retval, t1,
            IF size > MAX_PAGELET_BYTES THEN Raise(t1, "UnboundLocalError")
              ELSE IF t.gterm_code = PROMPT_CODE
              THEN IF current_dir # << >> THEN expect_prompt(t1, current_dir) ELSE t1
              ELSE Pagelet(t1))

gterm_append_at(t, s, at) ==
    LET prefix == IF at >= 0 THEN SubSeq(s, 1, at) ELSE s
        retval == IF at >= 0 THEN SubSeq(s, at + 1, Len(s)) ELSE << >>
        size == t.gterm_buf_size + Len(prefix)
    IN  gterm_append_t1(t, at, retval, size,
            [t EXCEPT !.gterm_buf_size = size,
                        !.gterm_buf.data = IF size <= MAX_PAGELET_BYTES THEN @ \o prefix ELSE @,
                        !.log = @ \o [k \in 1..Len(prefix) |-> <<prefix[k], "c">>]])

\* gterm_append: [t, retval]
gterm_append(t, s) ==
    gterm_append_at(t, s, Find(s, <<ESC>>))

---------------------------------------------------------------------------
(* The byte dispatcher *)

SINGLE_CONTROLS == {0, 5, 7, 8, 9, 10, 11, 12, 13, 14, 15}

\* the literal table esc_seq: the handler of the pending buffer e, or "" 
Literal(e) ==
    IF Len(e) = 1
    THEN CASE e[1] = 5 -> "esc_da"
           [] e[1] = BS -> "esc_0x08"
           [] e[1] = HT -> "esc_0x09"
           [] e[1] \in {LF, 11, 12} -> "esc_0x0a"
           [] e[1] = CR -> "esc_0x0d"
           [] e[1] \in {0, 7, 14, 15} -> "esc_ignore"
           [] OTHER -> ""
    ELSE IF e[1] # ESC THEN ""
    ELSE LET r == Tail(e)
         IN  CASE r \in {<<35, 56>>, <<61>>, <<62>>, <<40, 48>>, <<40, 65>>, <<40, 66>>,
                         <<RBRACKET, 82>>, <<72>>, <<78>>, <<79>>, <<97>>, <<110>>, <<111>>}
                      -> "esc_ignore"
               [] r \in {<<LBRACKET, 99>>, <<LBRACKET, 48, 99>>, <<90>>} -> "esc_da"
               [] r \in {<<LBRACKET, 62, 99>>, <<LBRACKET, 62, 48, 99>>} -> "esc_sda"
               [] r = <<LBRACKET, 53, 110>> -> "esc_sr"
               [] r = <<LBRACKET, 54, 110>> -> "esc_cpr"
               [] r = <<LBRACKET, 120>> -> "esc_tpr"
               [] r = <<55>> -> "esc_save"
               [] r = <<56>> -> "esc_restore"
               [] r = <<68>> -> "esc_ind"
               [] r = <<69>> -> "esc_nel"
               [] r = <<77>> -> "esc_ri"
               [] r = <<99>> -> "reset"
               [] OTHER -> ""

Handle(t, h) ==
    CASE h = "esc_da" -> esc_da(t)
      [] h = "esc_sda" -> esc_sda(t)
      [] h = "esc_sr" -> esc_sr(t)
      [] h = "esc_cpr" -> esc_cpr(t)
      [] h = "esc_tpr" -> esc_tpr(t)
      [] h = "esc_0x08" -> esc_0x08(t)
      [] h = "esc_0x09" -> esc_0x09(t)
      [] h = "esc_0x0a" -> esc_0x0a(t)
      [] h = "esc_0x0d" -> esc_0x0d(t)
      [] h = "esc_save" -> esc_save(t)
      [] h = "esc_restore" -> esc_restore(t)
      [] h = "esc_ind" -> esc_ind(t)
      [] h = "esc_nel" -> esc_nel(t)
      [] h = "esc_ri" -> esc_ri(t)
      [] h = "reset" -> reset(t)
      [] OTHER -> t

\* after the handler: self.buf = "" (a handler that raises leaves it pending)
Handled(t) == IF t.exc # "" THEN t ELSE [t EXCEPT !.buf = << >>]

escape_keep_h(t, e, h) ==
    IF h # "" THEN Handled(Handle(t, h))
        ELSE IF MatchCSI(e) THEN Handled(csi_dispatch(t, e))
        ELSE IF MatchOSC(e) THEN Handled(t)
        ELSE t

\* escape() that never discards the pending buffer
escape_keep(t) ==
    LET e == t.buf
    IN  escape_keep_h(t, e, Literal(e))

escape_h(t, e, h) ==
    IF Len(e) > MAX_ESC_LEN THEN [t EXCEPT !.buf = << >>]
        ELSE IF h # "" THEN Handled(Handle(t, h))
        ELSE IF MatchCSI(e) THEN Handled(csi_dispatch(t, e))
        ELSE IF MatchOSC(e) THEN Handled(t)
        ELSE t

\* escape(): match the pending buffer against the literal table, then the patterns
escape(t) ==
    LET e == t.buf
    IN  escape_h(t, e, Literal(e))

RECURSIVE write(_, _)
RECURSIVE WriteLoop(_, _, _)
WriteLoop(t, s, k) ==
    IF k > Len(s) \/ t.exc # "" THEN t
    ELSE IF t.gterm_buf.set THEN write(t, SubSeq(s, k, Len(s)))
    ELSE LET i == s[k]
             t1 == [t EXCEPT !.log = Append(@, <<i, "d">>)]
         IN  IF Len(t.buf) # 0 \/ i \in SINGLE_CONTROLS
             THEN WriteLoop(escape([t1 EXCEPT !.buf = Append(@, i)]), s, k + 1)
             ELSE IF i = ESC THEN WriteLoop([t1 EXCEPT !.buf = Append(@, i)], s, k + 1)
             ELSE WriteLoop(echo(t1, i), s, k + 1)

write_g(g) ==
    LET s == g.retval
    IN  IF g.t.exc # "" \/ s = << >> THEN g.t
        ELSE WriteLoop([g.t EXCEPT !.needs_updating = TRUE], s, 1)

write(t0, s0) ==
    LET t == [t0 EXCEPT !.output_time = t0.time]
    IN  write_g(IF t.gterm_buf.set THEN gterm_append(t, s0) ELSE [t |-> t, retval |-> s0])

---------------------------------------------------------------------------
(* Terminal: resize, clear, and the notebook operations *)

resize_always_t2(t, reset_flag, t1, min_width, head, line, meta0, saved, t2) ==
    LET t3 == IF saved
              THEN [t2 EXCEPT !.active_rows = 1,
                              !.cursor_x = Len(RStrip(line, NUL)),
                              !.main_screen = [SetMetaAt(@, 0, meta0) EXCEPT
                                                 !.data = PySliceAssign(@, 0, min_width, head)]]
              ELSE t2
        t4 == IF ~reset_flag THEN t ELSE t3
    IN  IF reset_flag /\ t1.exc # "" THEN t1
        ELSE [t4 EXCEPT !.screen = IF t.alt_mode THEN "alt" ELSE "main",
                        !.stale_screen = NoAltScreen,
                        !.needs_updating = TRUE]

resize_always_line(t, height, width, reset_flag, t1, min_width, head, line) ==
    LET meta0 == MetaAt(t1.main_screen, 0)
        saved == t1.active_rows # 0 /\ prompt_offset(line, t.pdelim, meta0) # 0
    IN  resize_always_t2(t, reset_flag, t1, min_width, head, line, meta0, saved,
            reset([t1 EXCEPT !.width = width, !.height = height]))

resize_always_head(t, height, width, reset_flag, t1, min_width, head) ==
    resize_always_line(t, height, width, reset_flag, t1, min_width, head, dump(head, FALSE))

resize_always_t1(t, height, width, reset_flag, t1) ==
    LET min_width == Min(t.width, width)
    IN  resize_always_head(t, height, width, reset_flag, t1, min_width,
            PySlice(t1.main_screen.data, 0, min_width))

\* resize as if every call were forced
resize_always(t, height, width, force) ==
    LET reset_flag == TRUE
    IN  resize_always_t1(t, height, width, reset_flag, scroll_screen(t, NoneInt))

resize_t2(t, reset_flag, t1, min_width, head, line, meta0, saved, t2) ==
    LET t3 == IF saved
              THEN [t2 EXCEPT !.active_rows = 1,
                              !.cursor_x = Len(RStrip(line, NUL)),
                              !.main_screen = [SetMetaAt(@, 0, meta0) EXCEPT
                                                 !.data = PySliceAssign(@, 0, min_width, head)]]
              ELSE t2
        t4 == IF ~reset_flag THEN t ELSE t3
    IN  IF reset_flag /\ t1.exc # "" THEN t1
        ELSE [t4 EXCEPT !.screen = IF t.alt_mode THEN "alt" ELSE "main",
                        !.stale_screen = NoAltScreen,
                        !.needs_updating = TRUE]

resize_line(t, height, width, reset_flag, t1, min_width, head, line) ==
    LET meta0 == MetaAt(t1.main_screen, 0)
        saved == t1.active_rows # 0 /\ prompt_offset(line, t.pdelim, meta0) # 0
    IN  resize_t2(t, reset_flag, t1, min_width, head, line, meta0, saved,
            reset([t1 EXCEPT !.width = width, !.height = height]))

resize_head(t, height, width, reset_flag, t1, min_width, head) ==
    resize_line(t, height, width, reset_flag, t1, min_width, head, dump(head, FALSE))

resize_t1(t, height, width, reset_flag, t1) ==
    LET min_width == Min(t.width, width)
    IN  resize_head(t, height, width, reset_flag, t1, min_width,
            PySlice(t1.main_screen.data, 0, min_width))

resize(t, height, width, force) ==
    LET reset_flag == force \/ t.width # width \/ t.height # height
    IN  resize_t1(t, height, width, reset_flag, scroll_screen(t, NoneInt))

clear(t) == [t EXCEPT !.screen_buf = clear_buf(@), !.needs_updating = TRUE]

Terminal_clear_last_entry(t, last_entry_index) ==
    [t EXCEPT !.screen_buf = clear_last_entry(@, last_entry_index)]

PYTHON_PROMPTS == << <<62, 62, 62, 32>>, <<46, 46, 46, 32>> >>
IPYTHON_PROMPTS == << <<73, 110, 32>>, <<32, 32, 32, 46, 46, 46, 58, 32>>,
                      <<32, 32, 32, 46, 46, 46, 46, 58, 32>>,
                      <<32, 32, 32, 46, 46, 46, 46, 46, 58, 32>>,
                      <<32, 32, 32, 46, 46, 46, 46, 46, 46, 58, 32>> >>
NODE_PROMPTS == << <<62, 32>>, <<46, 46, 46, 32>> >>
PYTHON == <<112, 121, 116, 104, 111, 110>>
NODE == <<110, 111, 100, 101>>

\* os.path.basename
basename(path) ==
    LET slashes == {k \in 1..Len(path) : path[k] = 47}
    IN  IF slashes = {} THEN path
        ELSE SubSeq(path, (CHOOSE k \in slashes : \A m \in slashes : k >= m) + 1, Len(path))

FirstWord_white(line, white) ==
    LET starts == {k \in 1..Len(line) : line[k] \notin white}
    IN  IF starts = {} THEN << >>
        ELSE LET a == CHOOSE k \in starts : \A m \in starts : k <= m
                 ends == {k \in a..Len(line) : k = Len(line) \/ line[k + 1] \in white}
                 b == CHOOSE k \in ends : \A m \in ends : k <= m
             IN  SubSeq(line, a, b)

\* line.split()[0], or << >> when there is no word
FirstWord(line) ==
    FirstWord_white(line, {SPACE, HT, LF, CR, 11, 12})

NotePrompts_first(at_shell, p1, word, first) ==
    IF p1 # << >> \/ word = << >> THEN p1
        ELSE IF first = PYTHON_PROMPTS[1] THEN <<first>> \o Tail(PYTHON_PROMPTS)
        ELSE IF first = IPYTHON_PROMPTS[1] THEN <<first>> \o Tail(IPYTHON_PROMPTS)
        ELSE IF at_shell THEN <<first, <<62, 32>> >>
        ELSE IF first = <<62, 32>> THEN <<first, <<46, 46, 46, 32>> >>
        ELSE <<first>>

NotePrompts_word(at_shell, p1, word) ==
    NotePrompts_first(at_shell, p1, word, Append(word, SPACE))

NotePrompts_p1(t, at_shell, p1) ==
    NotePrompts_word(at_shell, p1,
            FirstWord(dump(peek(t, t.cursor_y, 0, t.cursor_y, t.width), TRUE)))

NotePrompts_base(t, prompts, at_shell, base) ==
    NotePrompts_p1(t, at_shell,
            IF prompts = << >> /\ t.command_path # << >>
              THEN (IF base = NODE THEN NODE_PROMPTS
                    ELSE IF base = PYTHON THEN PYTHON_PROMPTS ELSE prompts)
              ELSE prompts)

\* the prompts notebook() settles on when activated
NotePrompts(t, prompts, at_shell) ==
    NotePrompts_base(t, prompts, at_shell, basename(t.command_path))

IndexOf(seq, v) == CHOOSE k \in 1..Len(seq) : seq[k] = v /\ \A m \in 1..(k - 1) : seq[m] # v

Remove(seq, k) == SubSeq(seq, 1, k - 1) \o SubSeq(seq, k + 1, Len(seq))

HasCell(t, cell_index) == \E k \in 1..Len(t.note_cells.cells) :
                              t.note_cells.cells[k].cellIndex = cell_index

CellPos(t, cell_index) == CHOOSE k \in 1..Len(t.note_cells.cells) :
                              t.note_cells.cells[k].cellIndex = cell_index

leave_cell_loc(t, delete, move_up, cur_index, t1, t2, ci, loc) ==
    LET switch_cell_index == IF move_up /\ loc > 1 THEN ci[loc - 1]
                             ELSE IF loc < Len(ci) THEN ci[loc + 1]
                             ELSE IF loc > 1 THEN ci[1]
                             ELSE 0
        t3 == IF ~delete THEN t2
              ELSE IF Len(t.note_cells.cells) <= 1 THEN Raise(t2, "AssertionError")
              ELSE [t2 EXCEPT !.note_cells.cells = Remove(@, CellPos(t, cur_index)),
                              !.note_cells.cellIndices = Remove(@, loc)]
    IN  IF ~t.note_cells.active THEN [t |-> Raise(t, "TypeError"), ret |-> 0]
        ELSE IF cur_index = 0 THEN [t |-> t, ret |-> 0]
        ELSE IF t1.exc # "" THEN [t |-> t1, ret |-> 0]
        ELSE [t |-> t3, ret |-> switch_cell_index]

leave_cell_t2(t, delete, move_up, cur_index, t1, t2) ==
    LET ci == t.note_cells.cellIndices
    IN  leave_cell_loc(t, delete, move_up, cur_index, t1, t2, ci, IndexOf(ci, cur_index))

leave_cell_t1(t, delete, move_up, cur_index, t1) ==
    LET out == strip_prompt_lines(t1.note_screen_buf.scroll_lines, t.note_prompts)
    IN  leave_cell_t2(t, delete, move_up, cur_index, t1,
            [t1 EXCEPT !.note_cells.cells[CellPos(t, cur_index)].cellOutput = out,
                         !.note_screen_buf = clear_buf(@),
                         !.note_cells.curIndex = 0])

\* leave_cell: [t, ret]; ret 0 stands for the returns of None and of 0
leave_cell(t, delete, move_up) ==
    LET cur_index == t.note_cells.curIndex
    IN  leave_cell_t1(t, delete, move_up, cur_index, scroll_screen(t, t.active_rows))

select_cell_l(cell_index0, l) ==
    LET cell_index == IF cell_index0 = 0 THEN l.ret ELSE cell_index0
        t1 == [l.t EXCEPT !.note_input = << >>]
    IN  IF l.t.exc # "" THEN [t |-> l.t, ret |-> 0]
        ELSE IF ~HasCell(t1, cell_index) THEN [t |-> Raise(t1, "AssertionError"), ret |-> 0]
        ELSE [t |-> [t1 EXCEPT !.note_cells.curIndex = cell_index,
                               !.note_cells.cells[CellPos(t1, cell_index)].cellOutput = << >>],
              ret |-> cell_index]

\* select_cell: [t, ret]
select_cell(t, cell_index0, delete, move_up) ==
    select_cell_l(cell_index0, leave_cell(t, delete, move_up))

switch_cell_r(t, r) ==
    IF r.t.exc # "" \/ t.note_cells.curIndex = r.ret THEN r.t
        ELSE screen_callback(r.t, SimpleEvent("note_switch_cell"))

switch_cell(t, cell_index, move_up) ==
    switch_cell_r(t, select_cell(t, cell_index, FALSE, move_up))

delete_cell_r(r) ==
    IF r.t.exc # "" THEN r.t ELSE screen_callback(r.t, SimpleEvent("note_delete_cell"))

delete_cell(t) ==
    delete_cell_r(select_cell(t, 0, TRUE, FALSE))

add_cell_recount_before_cell_number(t1, cell_index, ci, before_cell_number) ==
    LET t2 == [t1 EXCEPT !.note_cells.maxIndex = cell_index,
                         !.note_cells.curIndex = cell_index,
                         !.note_cells.cells =
                             Append(@, [cellIndex |-> cell_index, cellInput |-> << >>,
                                        cellOutput |-> << >>]),
                         !.note_cells.cellIndices =
                             IF before_cell_number > Len(ci) THEN Append(ci, cell_index)
                             ELSE SubSeq(ci, 1, before_cell_number - 1) \o <<cell_index>>
                                  \o SubSeq(ci, before_cell_number, Len(ci))]
    IN  IF t1.exc # "" THEN t1 ELSE screen_callback(t2, SimpleEvent("note_add_cell"))

add_cell_recount_t1(before_cell_number0, t1) ==
    LET cell_index == Len(t1.note_cells.cells) + 1
        prev_index == t1.note_cells.curIndex
        ci == t1.note_cells.cellIndices
    IN  add_cell_recount_before_cell_number(t1, cell_index, ci,
            IF before_cell_number0 # 0 THEN before_cell_number0
            ELSE IF prev_index # 0 THEN 1 + IndexOf(ci, prev_index) ELSE 1 + Len(ci))

\* a variant that numbers the new cell after the cells there are
add_cell_recount(t, before_cell_number0) ==
    LET l == leave_cell(t, FALSE, FALSE)
    IN  add_cell_recount_t1(before_cell_number0, l.t)

add_cell_before_cell_number(t1, cell_index, ci, before_cell_number) ==
    LET t2 == [t1 EXCEPT !.note_cells.maxIndex = cell_index,
                         !.note_cells.curIndex = cell_index,
                         !.note_cells.cells =
                             Append(@, [cellIndex |-> cell_index, cellInput |-> << >>,
                                        cellOutput |-> << >>]),
                         !.note_cells.cellIndices =
                             IF before_cell_number > Len(ci) THEN Append(ci, cell_index)
                             ELSE SubSeq(ci, 1, before_cell_number - 1) \o <<cell_index>>
                                  \o SubSeq(ci, before_cell_number, Len(ci))]
    IN  IF t1.exc # "" THEN t1 ELSE screen_callback(t2, SimpleEvent("note_add_cell"))

add_cell_t1(before_cell_number0, t1) ==
    LET cell_index == t1.note_cells.maxIndex + 1
        prev_index == t1.note_cells.curIndex
        ci == t1.note_cells.cellIndices
    IN  add_cell_before_cell_number(t1, cell_index, ci,
            IF before_cell_number0 # 0 THEN before_cell_number0
            ELSE IF prev_index # 0 THEN 1 + IndexOf(ci, prev_index) ELSE 1 + Len(ci))

add_cell(t, before_cell_number0) ==
    LET l == leave_cell(t, FALSE, FALSE)
    IN  add_cell_t1(before_cell_number0, l.t)

\* input_data.replace("\r\n","\n").replace("\r","\n").split("\n")
RECURSIVE SplitLines(_, _)
SplitLines(s, cur) ==
    IF s = << >> THEN <<cur>>
    ELSE IF s[1] = CR /\ Len(s) >= 2 /\ s[2] = LF THEN <<cur>> \o SplitLines(Tail(Tail(s)), << >>)
    ELSE IF s[1] \in {CR, LF} THEN <<cur>> \o SplitLines(Tail(s), << >>)
    ELSE SplitLines(Tail(s), Append(cur, s[1]))

exec_cell_lines(t, cell_index, cur_index, lines) ==
    LET note_input == IF lines[Len(lines)] # << >> THEN Append(lines, << >>) ELSE lines
        t1 == [t EXCEPT !.note_cells.cells[CellPos(t, cur_index)].cellInput = lines,
                        !.note_input = IF t.note_prompts = << >> THEN << >> ELSE note_input,
                        !.note_screen_buf = clear_buf(@)]
    IN  IF ~t.note_cells.active THEN Raise(t, "TypeError")
        ELSE IF cur_index = 0 THEN t
        ELSE IF cell_index # cur_index THEN Raise(t, "AssertionError")
        ELSE [zero_screen(t1) EXCEPT !.cursor_x = 0]

\* exec_cell (what it writes to the child is left out)
exec_cell(t, cell_index, input_data) ==
    LET cur_index == t.note_cells.curIndex
    IN  exec_cell_lines(t, cell_index, cur_index, SplitLines(input_data, << >>))

complete_cell(t, incomplete) ==
    LET t1 == IF incomplete # << >> THEN [t EXCEPT !.note_screen_buf = clear_buf(@)] ELSE t
    IN  [zero_screen(t1) EXCEPT !.cursor_x = 0]

\* the deactivation loop over the cells, in the order they were created
RECURSIVE CopyLines(_, _)
CopyLines(sb, lines) ==
    IF lines = << >> \/ sb.exc # "" THEN sb
    ELSE CopyLines(scroll_buf_up(sb, lines[1], NoMeta, 0, "gterm-cell-input", PlainParams,
                                 "none"),
                   Tail(lines))

RECURSIVE CopyCells(_, _, _)
CopyCells_c(prompt, c) ==
    IF c.exc # "" THEN c
                             ELSE scroll_buf_up(c, prompt, NoMeta, 0, "", PlainParams, "none")

CopyCells_sb1(cells, prompt, cell, sb1) ==
    IF sb1.exc # "" THEN sb1
             ELSE CopyCells(append_scroll(sb1, cell.cellOutput), Tail(cells), prompt)

CopyCells(sb, cells, prompt) ==
    IF cells = << >> \/ sb.exc # "" THEN sb
    ELSE LET cell == cells[1]
         IN  CopyCells_sb1(cells, prompt, cell,
                 IF cell.cellInput # << >>
                    THEN CopyCells_c(prompt, CopyLines(sb, cell.cellInput))ELSE sb)

Activate_t3(at_shell, prompts, t3) ==
    LET t4 == [t3 EXCEPT !.scroll_bot = 0,
                         !.note_screen_buf = set_buf_note(clear_buf(@), t3.note_count),
                         !.note_cells = [NoCells EXCEPT !.active = TRUE],
                         !.note_prompts = prompts,
                         !.note_shell = at_shell]
    IN  IF t3.exc # "" THEN t3
        ELSE add_cell(screen_callback(t4, SimpleEvent("note_activate")), 0)

Activate_t2(at_shell, prompts, t2) ==
    Activate_t3(at_shell, prompts,
            IF t2.exc # "" THEN t2 ELSE resize(t2, t2.height, t2.width, TRUE))

Activate_t1(at_shell, prompts, t1) ==
    Activate_t2(at_shell, prompts, IF t1.exc # "" THEN t1 ELSE update(t1))

Activate(t, prompts0) ==
    LET at_shell == t.active_rows # 0 /\ MetaAt(t.main_screen, t.active_rows - 1).set
        cur_dir == t.current_dir
        prompts == NotePrompts(t, prompts0, at_shell)
    IN  Activate_t1(at_shell, prompts,
            scroll_screen([t EXCEPT !.note_count = @ + 1], t.active_rows))

Deactivate_t3(t1, sb, t2, t3) ==
    LET t4 == screen_callback(zero_screen(t3), SimpleEvent("note_activate"))
    IN  IF t1.exc # "" THEN t1
        ELSE IF t1.note_prompts = << >> THEN Raise(t1, "IndexError")
        ELSE IF sb.exc # "" THEN Raise(t2, sb.exc)
        ELSE IF t3.exc # "" THEN t3
        ELSE update(t4)

Deactivate_t2(t1, sb, t2) ==
    Deactivate_t3(t1, sb, t2,
            resize([t2 EXCEPT !.scroll_bot = t2.height - 1], t2.height, t2.width, TRUE))

Deactivate_sb(t1, sb) ==
    Deactivate_t2(t1, sb,
            [t1 EXCEPT !.note_cells = NoCells,
                         !.note_screen_buf = clear_buf(@),
                         !.note_prompts = << >>,
                         !.screen_buf = [sb EXCEPT !.exc = ""]])

Deactivate_t1(t1) ==
    LET prompt == t1.note_prompts[1]
    IN  Deactivate_sb(t1, CopyCells(t1.screen_buf, t1.note_cells.cells, prompt))

Deactivate(t) ==
    LET l == leave_cell(t, FALSE, FALSE)
    IN  Deactivate_t1(l.t)

notebook(t, activate, prompts) == IF activate THEN Activate(t, prompts) ELSE Deactivate(t)

pty_read_line(t2, line) ==
    LET sent == IF t2.note_shell /\ prompt_offset(line, t2.pdelim, MetaAt(t2.main_screen, 0)) # 0
                THEN TRUE
                ELSE StartsWithAny(line, t2.note_prompts)
    IN  IF t2.exc # "" \/ t2.note_input = << >> \/ ~sent THEN t2
        ELSE [t2 EXCEPT !.note_input = Tail(@)]

pty_read_t1(t1) ==
    LET t2 == IF t1.exc # "" THEN t1 ELSE [t1 EXCEPT !.outbuf = << >>]
    IN  pty_read_line(t2, dump(peek(t2, t2.cursor_y, 0, t2.cursor_y, t2.width), TRUE))

\* pty_read: the bytes of the child are written, the replies are read off
pty_read(t, data0) ==
    LET GT2 == <<62, SPACE>>
        CLR == <<CR, ESC, LBRACKET, 75, 62, SPACE>>
        data == IF ~t.trim_first_prompt THEN data0
                ELSE IF StartsWith(data0, GT2) THEN SubSeq(data0, 3, Len(data0))
                ELSE IF StartsWith(data0, CLR) THEN SubSeq(data0, 7, Len(data0))
                ELSE data0
    IN  pty_read_t1(write([t EXCEPT !.trim_first_prompt = FALSE, !.log = << >>], data))

pty_write(t, data) ==
    IF \E k \in 1..Len(data) : data[k] \in {CR, LF} THEN enter(t) ELSE t

\* Terminal.__init__
Terminal(height, width, cookie, pdelim) ==
    [width |-> width, height |-> height, cookie |-> cookie, pdelim |-> pdelim,
     screen_buf |-> ScreenBuf(pdelim), note_count |-> 0,
     note_screen_buf |-> ScreenBuf(NoPdelim), note_cells |-> NoCells,
     note_input |-> << >>, note_prompts |-> << >>, note_shell |-> FALSE,
     time |-> 0, output_time |-> 0, update_time |-> 0, needs_updating |-> TRUE,
     main_screen |-> Screen(width, height), alt_screen |-> Screen(width, height),
     stale_screen |-> NoAltScreen, screen |-> "main",
     scroll_top |-> 0, scroll_bot |-> height - 1,
     cursor_x |-> 0, cursor_y |-> 0, cursor_x_bak |-> 0, cursor_y_bak |-> 0,
     cursor_eol |-> 0, outbuf |-> << >>, active_rows |-> 0,
     current_dir |-> << >>, current_meta |-> NoMeta,
     gterm_code |-> 0, gterm_buf |-> [set |-> FALSE, data |-> << >>],
     gterm_buf_size |-> 0, gterm_entry_index |-> NoneInt, gterm_validated |-> FALSE,
     gterm_output_buf |-> << >>,
     buf |-> << >>, alt_mode |-> FALSE, trim_first_prompt |-> pdelim # << >>,
     command_path |-> << >>,
     cb |-> << >>, log |-> << >>, file_read |-> FALSE, exc |-> ""]

---------------------------------------------------------------------------
(* Multiplex: the map of terminals, the mutex and the loop thread.  A      *)
(* terminal's name is the number n of "tty<n>".  mux.proc maps a name to   *)
(* [term, fd, pid]; mux.now is the clock, in units of 10 ms; mux.open_fds  *)
(* and mux.sigterm are the environment: the open descriptors and the       *)
(* children a SIGTERM was sent to.  An exception that leaves a method is   *)
(* the field raised.  mux.lock is the thread that holds the mutex, or "".  *)

IDLE_TIMEOUT == 30000
UPDATE_INTERVAL == 5
START_TIME == 100000

\* the first item of a set of descriptors or names
First(S) == CHOOSE x \in S : \A y \in S : x <= y

\* Multiplex.__init__
Multiplex ==
    [proc |-> << >>, alive |-> 1, check_kill_idle |-> FALSE, name_count |-> 0,
     lock |-> "", now |-> START_TIME, open_fds |-> {}, sigterm |-> {}, raised |-> "",
     errlog |-> {}, asked |-> {}, at_shutdown |-> {},
     loop |-> [pc |-> "running", fd_dict |-> << >>, inputs |-> {}, todo |-> {},
               cur_time |-> 0],
     caller |-> [pc |-> "idle", name |-> 0, height |-> 0, width |-> 0, exc |-> ""]]

\* the Terminal of a name, as a method of the multiplexer finds it: the clock set
Emu(m, term_name) ==
    [m.proc[term_name].term EXCEPT !.cb = << >>, !.log = << >>, !.time = m.now, !.exc = ""]

SetEmu(m, term_name, t) ==
    [m EXCEPT !.proc[term_name].term = t, !.raised = t.exc]

\* Multiplex.set_size, once the terminal is found
set_size_term(m, term_name, height, width) ==
    SetEmu(m, term_name, resize(Emu(m, term_name), height, width, FALSE))

terminal_fd(m, height, width, cookie, term_name, fd) ==
    LET t == [Terminal(height, width, cookie, PDELIM) EXCEPT !.time = m.now, !.output_time = m.now]
        m1 == [m EXCEPT !.name_count = term_name,
                        !.open_fds = @ \cup {fd},
                        !.proc = [n \in DOMAIN @ \cup {term_name} |->
                                    IF n = term_name THEN [term |-> t, fd |-> fd, pid |-> term_name]
                                    ELSE @[n]]]
    IN  set_size_term(m1, term_name, height, width)

\* Multiplex.terminal, with no name given
terminal(m, height, width, cookie) ==
    LET term_name == m.name_count + 1
    IN  terminal_fd(m, height, width, cookie, term_name,
            First({f \in 1..(Cardinality(m.open_fds) + 1) : f \notin m.open_fds}))

\* Multiplex.kill_term
kill_term(m, term_name) ==
    [m EXCEPT !.proc = [n \in DOMAIN @ |->
                          IF n = term_name THEN [@[n] EXCEPT !.term.output_time = 0] ELSE @[n]],
              !.check_kill_idle = TRUE]

\* Multiplex.kill_all
kill_all(m) ==
    [m EXCEPT !.proc = [n \in DOMAIN @ |-> [@[n] EXCEPT !.term.output_time = 0]],
              !.check_kill_idle = TRUE]

\* Multiplex.shutdown
shutdown(m) == IF m.alive = 0 THEN m ELSE kill_all([m EXCEPT !.alive = 0])

\* Multiplex.kill_idle
Idle(m, term_name) == m.now - m.proc[term_name].term.output_time > IDLE_TIMEOUT

kill_idle_idle(m, idle) ==
    LET closed == {m.proc[n].fd : n \in {k \in idle : m.proc[k].fd \in m.open_fds}}
        killed == {m.proc[n].pid : n \in {k \in idle : m.proc[k].fd \in m.open_fds}}
    IN  [m EXCEPT !.open_fds = {f \in @ : f \notin closed},
                  !.sigterm = @ \cup killed,
                  !.proc = [n \in {k \in DOMAIN @ : k \notin idle} |-> @[n]]]

kill_idle(m) ==
    kill_idle_idle(m, {n \in DOMAIN m.proc : Idle(m, n)})

\* Multiplex.term_update
term_update(m, term_name) ==
    IF term_name \notin DOMAIN m.proc THEN m
    ELSE SetEmu(m, term_name, update(Emu(m, term_name)))

term_read_try_m1(term_name, m1) ==
    IF m1.raised # "" THEN m1 ELSE kill_term(m1, term_name)

\* Multiplex.term_read; os.read gives data, or "" at the end of file, or fails
term_read_try(m, term_name, kind, data) ==
    IF kind = "error" THEN [m EXCEPT !.raised = "OSError"]
    ELSE IF kind = "eof"
         THEN term_read_try_m1(term_name, term_update(m, term_name))ELSE SetEmu(m, term_name, pty_read(Emu(m, term_name), data))

term_read_m1(term_name, m1) ==
    IF m1.raised \in {"KeyError", "IOError", "OSError"}
             THEN kill_term([m1 EXCEPT !.raised = "", !.errlog = @ \cup {term_name}], term_name)
             ELSE m1

term_read(m, term_name, kind, data) ==
    IF term_name \notin DOMAIN m.proc THEN m
    ELSE term_read_m1(term_name, term_read_try(m, term_name, kind, data))

\* Multiplex.loop: self.running()
loop_running(m) ==
    [m EXCEPT !.loop.pc = IF m.alive # 0 THEN "fds" ELSE "kill_all"]

\* Multiplex.loop: fd_dict, and the sleep when it is empty
loop_fds(m) ==
    LET fds == {m.proc[n].fd : n \in DOMAIN m.proc}
        fd_dict == [f \in fds |-> CHOOSE n \in DOMAIN m.proc : m.proc[n].fd = f]
    IN  [m EXCEPT !.loop.fd_dict = fd_dict,
                  !.loop.pc = IF fds = {} THEN "running" ELSE "select"]

\* Multiplex.loop: select returns the descriptors that have input
loop_select(m, inputs) ==
    [m EXCEPT !.loop.inputs = inputs,
              !.loop.pc = IF inputs = {} THEN "update" ELSE "read",
              !.loop.todo = DOMAIN m.loop.fd_dict,
              !.loop.cur_time = IF inputs = {} THEN m.now ELSE @]

\* the handler of an exception that reached the loop, without the kill
loop_except_logged(m, term_name) ==
    IF m.raised = "" THEN m
    ELSE [m EXCEPT !.raised = "", !.errlog = @ \cup {term_name}]

\* the handler of an exception that reached the loop
loop_except(m, term_name) ==
    IF m.raised = "" THEN m
    ELSE kill_term([m EXCEPT !.raised = "", !.errlog = @ \cup {term_name}], term_name)

loop_read_fd(m, kind, data, fd) ==
    LET m1 == loop_except(term_read(m, m.loop.fd_dict[fd], kind, data), m.loop.fd_dict[fd])
        rest == {f \in m.loop.inputs : f # fd}
    IN  [m1 EXCEPT !.loop.inputs = rest,
                   !.loop.pc = IF rest = {} THEN "update" ELSE "read",
                   !.loop.cur_time = IF rest = {} THEN m.now ELSE @]

\* Multiplex.loop: one turn of "for fd in inputs"
loop_read(m, kind, data) ==
    loop_read_fd(m, kind, data, First(m.loop.inputs))

\* Multiplex.loop: the test of one turn of "for term_name in fd_dict.values()"
needs_update(m, term_name) ==
    /\ term_name \in DOMAIN m.proc
    /\ (m.proc[term_name].term.needs_updating
          \/ m.proc[term_name].term.output_time > m.proc[term_name].term.update_time)
    /\ m.loop.cur_time - m.proc[term_name].term.update_time > UPDATE_INTERVAL

loop_update_test_fd(m, fd) ==
    LET rest == {f \in m.loop.todo : f # fd}
    IN  IF needs_update(m, m.loop.fd_dict[fd]) THEN [m EXCEPT !.loop.pc = "term_update"]
        ELSE [m EXCEPT !.loop.todo = rest, !.loop.pc = IF rest = {} THEN "check" ELSE "update"]

loop_update_test(m) ==
    loop_update_test_fd(m, First(m.loop.todo))

loop_update_fd(m, fd) ==
    LET m1 == loop_except(term_update(m, m.loop.fd_dict[fd]), m.loop.fd_dict[fd])
        rest == {f \in m.loop.todo : f # fd}
    IN  [m1 EXCEPT !.loop.todo = rest, !.loop.pc = IF rest = {} THEN "check" ELSE "update"]

\* Multiplex.loop: self.term_update(term_name) of that turn
loop_update(m) ==
    loop_update_fd(m, First(m.loop.todo))

\* Multiplex.loop: if self.check_kill_idle
loop_check(m) ==
    IF m.check_kill_idle THEN [m EXCEPT !.check_kill_idle = FALSE, !.loop.pc = "kill_idle"]
    ELSE [m EXCEPT !.loop.pc = "running"]

\* Multiplex.loop: self.kill_idle()
loop_kill_idle(m) == [kill_idle(m) EXCEPT !.loop.pc = "running"]

\* Multiplex.loop: self.kill_all() after the while loop
loop_kill_all(m) == [kill_all(m) EXCEPT !.loop.pc = "done"]

---------------------------------------------------------------------------
(* The state machine.  term is the Terminal; term.cb holds the callback    *)
(* events of the last operation and term.log the bytes of the last read,   *)
(* each tagged "d" (dispatched) or "c" (captured); steps counts the        *)
(* operations; hist names the last operation and its input.  The field     *)
(* time of a Terminal is the clock that time.time() reads.                 *)

WIDTH == 3
HEIGHT == 2
COOKIE == 7

Begin(t) == [t EXCEPT !.cb = << >>, !.log = << >>]

Hist(op, arg) == [op |-> op, arg |-> arg]

\* byte strings of the child
CSI(params, final) == <<ESC, LBRACKET>> \o params \o <<final>>
D1150 == <<49, 49, 53, 48>>
D1155 == <<49, 49, 53, 53>>
SET_PROMPT == CSI(<<QMARK>> \o D1150 \o <<SEMI, 55>>, 104)
END_PROMPT == CSI(<<QMARK>> \o D1150, 108)
SET_PAGELET == CSI(<<QMARK>> \o D1155 \o <<SEMI, 55>>, 104)
SET_PAGELET_BAD == CSI(<<QMARK>> \o D1155 \o <<SEMI, 56>>, 104)
SET_PAGELET_NONE == CSI(<<QMARK>> \o D1155, 104)
END_PAGELET == CSI(<<QMARK>> \o D1155, 108)
CRLF == <<CR, LF>>

Init ==
    /\ term = Terminal(HEIGHT, WIDTH, COOKIE, PDELIM)
    /\ steps = 0
    /\ hist = Hist("init", << >>)
    /\ mux = Multiplex

Live == term.exc = "" /\ steps < MaxSteps

Step(t, op, arg) ==
    /\ term' = t
    /\ steps' = steps + 1
    /\ hist' = Hist(op, arg)
    /\ mux' = mux

\* Multiplex.term_read: bytes of the child arrive
\* a token stands for the text of a pagelet; it is offered to the capture only
TokensCaptured(t) == \A k \in 1..Len(t.log) : t.log[k][1] > 255 => t.log[k][2] = "c"

PtyReadTo(t, data) == TokensCaptured(t) /\ Step(t, "pty_read", data)

PtyRead(chunks) ==
    /\ Live
    /\ \E data \in chunks : PtyReadTo(pty_read(Begin(term), data), data)

\* Multiplex.term_update
Update ==
    /\ Live
    /\ Step(update(Begin(term)), "update", << >>)

\* Multiplex.set_size
Resize(sizes) ==
    /\ Live
    /\ \E hw \in sizes :
          Step(resize(Begin(term), hw[1], hw[2], FALSE), "resize", hw)

\* Multiplex.clear
Clear ==
    /\ Live
    /\ Step(clear(Begin(term)), "clear", << >>)

\* Multiplex.clear_last_entry
ClearLastEntry ==
    /\ Live
    /\ \E n \in {0, term.screen_buf.entry_index} :
          Step(Terminal_clear_last_entry(Begin(term), n), "clear_last_entry", <<n>>)

\* Multiplex.reconnect
Reconnect ==
    /\ Live
    /\ Step(reconnect(Begin(term)), "reconnect", << >>)

\* notebook on, with the prompts the front end passes
NotebookOn(prompt_sets) ==
    /\ Live
    /\ ~term.note_cells.active
    /\ term.note_count < MaxCells
    /\ \E prompts \in prompt_sets :
          Step(notebook(Begin(term), TRUE, prompts), "notebook_on", prompts)

NotebookOff ==
    /\ Live
    /\ term.note_cells.active
    /\ Step(notebook(Begin(term), FALSE, << >>), "notebook_off", << >>)

ExecCell(inputs) ==
    /\ Live
    /\ term.note_cells.active
    /\ \E input_data \in inputs :
          Step(exec_cell(Begin(term), term.note_cells.curIndex, input_data),
               "exec_cell", input_data)

AddCell ==
    /\ Live
    /\ term.note_cells.active
    /\ term.note_cells.maxIndex < MaxCells
    /\ Step(add_cell(Begin(term), 0), "add_cell", << >>)

\* Multiplex.add_cell with the place of the new cell: 0 for the end of the
\* list, or the number of the cell it is to come before
AddCellBefore(numbers) ==
    /\ Live
    /\ term.note_cells.active
    /\ term.note_cells.maxIndex < MaxCells
    /\ \E before_cell_number \in numbers :
          Step(add_cell(Begin(term), before_cell_number), "add_cell", <<before_cell_number>>)

\* Multiplex.switch_cell
SwitchCell(indices) ==
    /\ Live
    /\ term.note_cells.active
    /\ \E cell_index \in indices, move_up \in BOOLEAN :
          Step(switch_cell(Begin(term), cell_index, move_up), "switch_cell",
               <<cell_index, IF move_up THEN 1 ELSE 0>>)

\* Multiplex.delete_cell
DeleteCell ==
    /\ Live
    /\ term.note_cells.active
    /\ Step(delete_cell(Begin(term)), "delete_cell", << >>)

---------------------------------------------------------------------------
(* Cursor movement: text, cursor-positioning sequences with a parameter of *)
(* 0, resizes, updates.                                                    *)

CursorChunks == { <<97>>, <<97, 98, 99>>, CRLF, CSI(<<48>>, 71), CSI(<<48, SEMI, 48>>, 72),
                  CSI(<<48>>, 100), CSI(<< >>, 67), SET_PROMPT \o <<100>> \o END_PROMPT \o <<DOLLAR>> }

Sizes == { <<HEIGHT, WIDTH>>, <<HEIGHT, WIDTH - 1>>, <<HEIGHT + 1, WIDTH>> }

NextCursor ==
    \/ PtyRead(CursorChunks)
    \/ Update
    \/ Resize(Sizes)

SpecCursor == Init /\ [][NextCursor]_vars

\* C1: in every reachable state the cursor is inside the screen:
\* 0 <= cursor_y < height and 0 <= cursor_x < width.
C1_CursorInBounds ==
    /\ 0 <= term.cursor_y /\ term.cursor_y < term.height
    /\ 0 <= term.cursor_x /\ term.cursor_x < term.width

---------------------------------------------------------------------------
(* Scroll history: lines of text, prompts and commands, pagelets with and  *)
(* without blobs, clearing, and the notebook.                              *)

\* a pagelet with the terminal's cookie, and one with another cookie
PG(body) == SET_PAGELET \o body \o END_PAGELET
PG_BAD(body) == SET_PAGELET_BAD \o body \o END_PAGELET

TEXT_LINE == <<97>> \o CRLF
PROMPT_LINE == SET_PROMPT \o <<100>> \o END_PROMPT \o <<DOLLAR, 99>> \o CRLF

ScrollChunks == { TEXT_LINE, TEXT_LINE \o TEXT_LINE, PROMPT_LINE,
                  PG(<<DIR_BLOB1>>), PG(<<DIR_OVER>>), PG_BAD(<<98>>) }

NotePromptSets == { <<>>, << <<62, SPACE>> >> }

NextScroll ==
    \/ PtyRead(ScrollChunks)
    \/ Update
    \/ Clear
    \/ ClearLastEntry
    \/ NotebookOn(NotePromptSets)
    \/ NotebookOff

SpecScroll == Init /\ [][NextScroll]_vars

\* C2: in every reachable state neither ScreenBuf holds more than
\* MAX_SCROLL_LINES scroll lines.
C2_ScrollBounded ==
    /\ Len(term.screen_buf.scroll_lines) <= MAX_SCROLL_LINES
    /\ Len(term.note_screen_buf.scroll_lines) <= MAX_SCROLL_LINES

\* the entries of lines that carry entry_index (keep) or another one (~keep)
RECURSIVE OfIndex(_, _, _)
OfIndex(lines, entry_index, keep) ==
    IF lines = << >> THEN << >>
    ELSE (IF (lines[1].jindex = entry_index) = keep THEN <<lines[1]>> ELSE << >>)
         \o OfIndex(Tail(lines), entry_index, keep)

\* put: the buffer with the new entry appended; up: what scroll_buf_up leaves
EvictsOldestGroup(put, up) ==
    /\ up.exc = ""
    /\ up.scroll_lines = OfIndex(put.scroll_lines, put.scroll_lines[1].jindex, FALSE)
    /\ up.delete_blob_ids =
           put.delete_blob_ids
           \o BlobIds(OfIndex(put.scroll_lines, put.scroll_lines[1].jindex, TRUE))

InsertedParams == { PlainParams, PageletParams("pagelet", "b2", FALSE, FALSE) }

C3_EvictOldestGroup_put(rp, sb, put) ==
    LET up == scroll_buf_up(sb, <<97>>, NoMeta, 0, "", rp, "none")
    IN  (put.exc = "" /\ ~InPlace(sb, 0, rp)
                 /\ Len(put.scroll_lines) > MAX_SCROLL_LINES)
                => EvictsOldestGroup(put, up)

C3_EvictOldestGroup_sb(rp, sb) ==
    C3_EvictOldestGroup_put(rp, sb, scroll_buf_put(sb, <<97>>, NoMeta, 0, "", rp, "none"))

\* C3: when an insertion into the buffer that takes the scrolled lines makes
\* scroll_lines exceed MAX_SCROLL_LINES, exactly the entries with the
\* entry_index of the oldest entry are removed, the blob id of each removed
\* entry is appended to delete_blob_ids, and nothing is raised.
C3_EvictOldestGroup ==
    term.exc = "" =>
        \A rp \in InsertedParams :
            C3_EvictOldestGroup_sb(rp, RetireBuf(term))

\* the blob ids queued for deletion: those of the main buffer, and those of
\* the notebook buffer while notebook mode is active
Queued(t) ==
    {t.screen_buf.delete_blob_ids[k] : k \in 1..Len(t.screen_buf.delete_blob_ids)}
    \cup (IF t.note_cells.active
          THEN {t.note_screen_buf.delete_blob_ids[k] :
                    k \in 1..Len(t.note_screen_buf.delete_blob_ids)}
          ELSE {})

\* the blob ids the callback was told to delete by the last operation
Delivered(t) == {t.cb[k].blob : k \in {j \in 1..Len(t.cb) : t.cb[j].kind = "delete_blob"}}

\* C4: a queued blob id leaves the queue only by being delivered to the
\* callback as a delete_blob event: an operation that takes it off the queue
\* delivers it.  (The claim adds that every queued id is delivered by a later
\* update; an id that is dropped undelivered is never delivered.)
C4_QueuedUntilDelivered ==
    [][\A id \in Queued(term) : id \in Queued(term') \/ id \in Delivered(term')]_vars

\* the blob ids of the entries present in a buffer
Owned(sb) ==
    {sb.scroll_lines[k].blob : k \in {j \in 1..Len(sb.scroll_lines) : sb.scroll_lines[j].blob # ""}}

UniqueOwners(sb) ==
    \A j, k \in 1..Len(sb.scroll_lines) :
        (j < k /\ sb.scroll_lines[j].blob # "") => sb.scroll_lines[j].blob # sb.scroll_lines[k].blob

\* C5: no entry present in scroll_lines carries a blob id that is queued in
\* delete_blob_ids or was just reported deleted, and no two present entries
\* carry the same blob id.
C5_BlobOwnership ==
    /\ Owned(term.screen_buf) \cap (Queued(term) \cup Delivered(term)) = {}
    /\ Owned(term.note_screen_buf) \cap (Queued(term) \cup Delivered(term)) = {}
    /\ UniqueOwners(term.screen_buf)
    /\ UniqueOwners(term.note_screen_buf)

\* C15: no operation other than clear_last_entry lowers the entry_index of
\* a buffer, and clear_last_entry lowers it by at most one.
C15_EntryIndexMonotone ==
    [][/\ term'.note_screen_buf.entry_index >= term.note_screen_buf.entry_index
       /\ hist'.op # "clear_last_entry" =>
              term'.screen_buf.entry_index >= term.screen_buf.entry_index
       /\ hist'.op = "clear_last_entry" =>
              term'.screen_buf.entry_index >= term.screen_buf.entry_index - 1]_vars

\* clear_last_entry has removed entry 1, after prompts had raised the index
C15_Witness ==
    /\ hist.op = "clear_last_entry" /\ hist.arg = <<1>>
    /\ term.screen_buf.entry_index = 0
    /\ term.screen_buf.cleared_last

\* the pagelet ids of the entries of a buffer
PageletIds(sb) == {sb.scroll_lines[k].pagelet_id : k \in 1..Len(sb.scroll_lines)}

\* the buffer after clear_last_entry and the scrolling of one more line
ClearedThenPut(sb) ==
    scroll_buf_up(clear_last_entry(sb, 0), <<97>>, NoMeta, 0, "", PlainParams, "")

\* is the id given to the new last entry of put one that an entry of sb has
Reused(sb, put) ==
    /\ put.exc = "" /\ put.scroll_lines # << >>
    /\ put.scroll_lines[Len(put.scroll_lines)].pagelet_id \in PageletIds(sb)

\* C16: a buffer never gives a new entry a pagelet id it gave to an entry
\* before: the entries of a buffer have different ids, and the entry that is
\* scrolled in after clear_last_entry has an id that none of the entries
\* before the clearing had.
C16_PageletIdsUnique ==
    /\ Cardinality(PageletIds(term.screen_buf)) = Len(term.screen_buf.scroll_lines)
    /\ Cardinality(PageletIds(term.note_screen_buf)) = Len(term.note_screen_buf.scroll_lines)
    /\ clear_last_entry(term.screen_buf, 0) # term.screen_buf =>
           ~Reused(term.screen_buf, ClearedThenPut(term.screen_buf))

\* is the last entry of the buffer a pagelet that carries the id of the
\* current scroll count
LastIsCurrentPagelet(sb) ==
    /\ sb.scroll_lines # << >>
    /\ sb.scroll_lines[Len(sb.scroll_lines)].jtype = "pagelet"
    /\ sb.scroll_lines[Len(sb.scroll_lines)].pagelet_id = <<sb.buf_note, sb.current_scroll_count>>

\* the buffer after a pagelet with overwrite set is scrolled in
Overwritten(sb) ==
    scroll_buf_up(sb, <<98>>, NoMeta, 0, "", PageletParams("pagelet", "", TRUE, FALSE), "over")

\* put holds the entries of sb with the last one replaced by the new pagelet,
\* and the next delta starts below the scroll count
ReplacedInPlace(sb, put) ==
    /\ put.exc = ""
    /\ Len(put.scroll_lines) = Len(sb.scroll_lines)
    /\ put.current_scroll_count = sb.current_scroll_count
    /\ \A k \in 1..(Len(sb.scroll_lines) - 1) : put.scroll_lines[k] = sb.scroll_lines[k]
    /\ put.scroll_lines[Len(put.scroll_lines)].line = <<98>>
    /\ put.scroll_lines[Len(put.scroll_lines)].pagelet_id
          = sb.scroll_lines[Len(sb.scroll_lines)].pagelet_id
    /\ put.last_scroll_count < put.current_scroll_count

\* C17: a pagelet with overwrite set, scrolled into a buffer whose last entry
\* is a pagelet with the current pagelet id, replaces that entry in place:
\* the length of scroll_lines and current_scroll_count stay, and
\* last_scroll_count ends below current_scroll_count.
C17_OverwriteInPlace ==
    /\ LastIsCurrentPagelet(term.screen_buf) =>
           ReplacedInPlace(term.screen_buf, Overwritten(term.screen_buf))
    /\ LastIsCurrentPagelet(term.note_screen_buf) =>
           ReplacedInPlace(term.note_screen_buf, Overwritten(term.note_screen_buf))

\* a pagelet with overwrite set has replaced the blob pagelet before it: one
\* entry with the same scroll count, and the delta starts below it
C17_Witness ==
    /\ hist.op = "pty_read" /\ hist.arg = PG(<<DIR_OVER>>) /\ term.exc = ""
    /\ Len(term.screen_buf.scroll_lines) = 1
    /\ term.screen_buf.current_scroll_count = 1
    /\ term.screen_buf.scroll_lines[1].overwrite
    /\ term.screen_buf.delete_blob_ids = <<"b1">>
    /\ term.screen_buf.last_scroll_count = 0
    /\ ~term.screen_buf.full_update

\* the last step was a read of bytes of the child or an update, and notebook
\* mode was active when it began
PtyOutputInNotebook == term.note_cells.active /\ hist'.op \in {"pty_read", "update"}

\* C25: while notebook mode is active, the rows that a read of the child's
\* bytes or an update retires go to note_screen_buf; scroll_lines and
\* entry_index of the main ScreenBuf stay as they are.
C25_NotebookRetiresApart ==
    [][PtyOutputInNotebook =>
          /\ term'.screen_buf.scroll_lines = term.screen_buf.scroll_lines
          /\ term'.screen_buf.entry_index = term.screen_buf.entry_index]_vars

\* a read in notebook mode has retired rows into note_screen_buf
C25_Witness ==
    /\ hist.op = "pty_read" /\ term.exc = ""
    /\ term.note_cells.active
    /\ Len(term.note_screen_buf.scroll_lines) >= 2
    /\ term.screen_buf.scroll_lines # << >>

---------------------------------------------------------------------------
(* Updates: text, prompts, the alternate screen, resizes, clearing, the    *)
(* notebook, and the update of the front end after any of them.            *)

ALT_ON == CSI(<<QMARK, 52, 55>>, 104)
ALT_OFF == CSI(<<QMARK, 52, 55>>, 108)

UpdateChunks == { <<97>>, TEXT_LINE \o TEXT_LINE, PROMPT_LINE, ALT_ON \o <<98>>, ALT_OFF,
                  PG(<<DIR_BLOB1>>) }

NextUpdate ==
    \/ PtyRead(UpdateChunks)
    \/ Update
    \/ Resize(Sizes)
    \/ Clear
    \/ NotebookOn(NotePromptSets)
    \/ NotebookOff

SpecUpdate == Init /\ [][NextUpdate]_vars

\* ScreenBuf.update as update_callback calls it on the main buffer sb and on
\* the notebook buffer sb, not reconnecting
MainUpdate(t, sb) ==
    ScreenBuf_update(sb, IF t.note_cells.active THEN 0 ELSE t.active_rows,
                     t.width, t.height,
                     IF t.note_cells.active THEN 0 ELSE t.cursor_x,
                     IF t.note_cells.active THEN 0 ELSE t.cursor_y,
                     t.main_screen, IF t.alt_mode THEN t.alt_screen ELSE NoAltScreen,
                     t.pdelim, << >>, FALSE)

NoteUpdate(t, sb) ==
    ScreenBuf_update(sb, t.active_rows, t.width, t.height, t.cursor_x, t.cursor_y,
                     t.main_screen, NoAltScreen, NoPdelim, t.note_prompts, FALSE)

SecondEmpty(first, second) ==
    first.sb.exc = "" =>
        second.sb.exc = "" /\ second.update_rows = << >> /\ second.update_scroll = << >>

\* C6: ScreenBuf.update (not reconnecting) called twice with the same screen,
\* cursor and dimensions and no scroll insertion in between: the second call
\* returns no updated rows and no appended scroll lines.
C6_SecondUpdateEmpty ==
    /\ SecondEmpty(MainUpdate(term, term.screen_buf),
                   MainUpdate(term, MainUpdate(term, term.screen_buf).sb))
    /\ SecondEmpty(NoteUpdate(term, term.note_screen_buf),
                   NoteUpdate(term, NoteUpdate(term, term.note_screen_buf).sb))

\* a state whose first update has both rows and scroll lines to report
C6_Witness ==
    /\ term.exc = ""
    /\ MainUpdate(term, term.screen_buf).sb.exc = ""
    /\ MainUpdate(term, term.screen_buf).update_rows # << >>
    /\ MainUpdate(term, term.screen_buf).update_scroll # << >>
    /\ ~MainUpdate(term, term.screen_buf).full_update

\* Terminal.update, and Terminal.update again with nothing in between
FirstUpdate == update(Begin(term))
SecondUpdate == update(Begin(FirstUpdate))

\* C7: Terminal.update applied again with no input in between produces no
\* callback event, other than one that flushes a full update.
C7_SecondUpdateSilent ==
    (term.exc = "" /\ FirstUpdate.exc = "") =>
        /\ SecondUpdate.exc = ""
        /\ \A k \in 1..Len(SecondUpdate.cb) : SecondUpdate.cb[k].full_update

\* C7 as the code has it: the second update reports no change.  It calls the
\* callback once, with a row_update (note_row_update in notebook mode) that
\* is not a full update and carries no rows and no scroll lines.
C7_SecondUpdateReportsNothing ==
    (term.exc = "" /\ FirstUpdate.exc = "") =>
        /\ SecondUpdate.exc = ""
        /\ Len(SecondUpdate.cb) = 1
        /\ SecondUpdate.cb[1].kind =
               (IF term.note_cells.active THEN "note_row_update" ELSE "row_update")
        /\ ~SecondUpdate.cb[1].full_update
        /\ SecondUpdate.cb[1].update_rows = << >>
        /\ SecondUpdate.cb[1].update_scroll = << >>

\* a state whose first update has rows and scroll lines to report, and whose
\* second update calls the callback once
C7_Witness ==
    /\ term.exc = ""
    /\ FirstUpdate.exc = ""
    /\ \E k \in 1..Len(FirstUpdate.cb) :
          /\ FirstUpdate.cb[k].kind = "row_update"
          /\ FirstUpdate.cb[k].update_rows # << >>
          /\ FirstUpdate.cb[k].update_scroll # << >>
    /\ Len(SecondUpdate.cb) = 1

\* Terminal.resize to the size hw, and Terminal.resize to hw once more
ResizeOnce(hw) == resize(Begin(term), hw[1], hw[2], FALSE)
ResizeTwice(hw) == resize(ResizeOnce(hw), hw[1], hw[2], FALSE)

\* C20: resize(h, w) called twice in a row leaves the Terminal (screens,
\* cursor, scroll region, active_rows, scroll buffer, full_update flag) as
\* one call does.
C20_ResizeIdempotent ==
    term.exc = "" =>
        \A hw \in Sizes : ResizeOnce(hw).exc = "" => ResizeTwice(hw) = ResizeOnce(hw)

\* a resize to another size that scrolls rows into the scroll buffer and
\* keeps the prompt line
C20_Witness ==
    /\ term.exc = ""
    /\ \E hw \in Sizes :
          /\ hw # <<term.height, term.width>>
          /\ ResizeOnce(hw).exc = ""
          /\ ResizeOnce(hw).active_rows = 1
          /\ ResizeOnce(hw).screen_buf.scroll_lines # term.screen_buf.scroll_lines

---------------------------------------------------------------------------
(* Pagelets: whole ones and ones split over several reads, with the        *)
(* terminal's cookie, with another one and with none, within the size      *)
(* limit and beyond it.                                                    *)

PG_NONE(body) == SET_PAGELET_NONE \o body \o END_PAGELET

PageletChunks == { PG(<<98>>), PG(<<HDR_BLOB, 98>>), PG(<<HDR_EDIT>>),
                   PG_BAD(<<HDR_BLOB, 98>>), PG_BAD(<<HDR_EDIT>>), PG_BAD(<<HDR_FRAME>>),
                   PG_NONE(<<DIR_BLOB1, LT, 98>>),
                   SET_PAGELET \o <<98, 98>>, SET_PAGELET_BAD \o <<DIR_FORM>>,
                   <<98, 98>>, END_PAGELET \o <<97>>, <<ESC, 99>> }

NextPagelet ==
    \/ PtyRead(PageletChunks)
    \/ Update

SpecPagelet == Init /\ [][NextPagelet]_vars

IsIntro(s) ==
    StartsWith(s, SET_PAGELET) \/ StartsWith(s, SET_PAGELET_BAD) \/ StartsWith(s, SET_PAGELET_NONE)

\* the position in s of the ESC that ends the capture of a pagelet, 0 if none:
\* the first ESC when t is capturing a pagelet, the first ESC after the
\* introducer when s begins with one and t takes it
Cut(t, s) ==
    IF t.gterm_buf.set
    THEN (IF t.gterm_code = PAGELET_CODE THEN Find(s, <<ESC>>) + 1 ELSE 0)
    ELSE IF ~t.alt_mode /\ t.buf = << >> /\ ~t.trim_first_prompt /\ IsIntro(s)
              /\ Find(Tail(s), <<ESC>>) >= 0
    THEN Find(Tail(s), <<ESC>>) + 2
    ELSE 0

\* the bytes the pagelet has when its capture ends at position cut of the
\* read t -> r
SizeAtEsc(t, r, cut) ==
    (IF t.gterm_buf.set THEN t.gterm_buf_size ELSE 0)
    + Cardinality({k \in 1..(cut - 1) : k <= Len(r.log) /\ r.log[k][2] = "c"})

\* the positions from cut on at which an introducer ends and a capture begins
IntroEnds(s, cut) ==
    {e \in cut..Len(s) :
        \E intro \in {SET_PAGELET, SET_PAGELET_BAD, SET_PAGELET_NONE, SET_PROMPT} :
            /\ e - Len(intro) + 1 >= cut
            /\ SubSeq(s, e - Len(intro) + 1, e) = intro}

\* the last position from cut on that is not captured again
DispatchedTo(s, cut) ==
    IF IntroEnds(s, cut) = {} THEN Len(s)
    ELSE CHOOSE e \in IntroEnds(s, cut) : \A f \in IntroEnds(s, cut) : e <= f

PageletReset(r) ==
    /\ r.gterm_code = 0
    /\ ~r.gterm_buf.set
    /\ r.gterm_buf_size = 0
    /\ ~r.gterm_validated

\* the read of s takes t to r: the ESC at cut and the bytes after it went
\* through the byte dispatcher, in order, each once (up to the introducer of
\* a next capture, if they hold one), and the pagelet state is reset
SuffixDispatched(t, r, s, cut) ==
    /\ r.exc = ""
    /\ Len(r.log) = Len(s)
    /\ \A k \in 1..Len(s) : r.log[k][1] = s[k]
    /\ \A k \in cut..DispatchedTo(s, cut) : r.log[k][2] = "d"
    /\ IntroEnds(s, cut) = {} => PageletReset(r)

\* C8: when an ESC ends the capture of a pagelet, in the read that began the
\* capture or in a later one, the ESC and every byte after it are processed
\* by the byte dispatcher in their order, none lost or duplicated, and the
\* pagelet state (code, buffer, size, validated flag) is reset.
C8_SuffixDispatched ==
    [][(hist'.op = "pty_read" /\ Cut(term, hist'.arg) > 0)
       => SuffixDispatched(term, term', hist'.arg, Cut(term, hist'.arg))]_vars

\* C9: when the pagelet is larger than MAX_PAGELET_BYTES as its ESC arrives,
\* nothing is raised, an error pagelet (x_gterm_response error_message) goes
\* to the callback, the pagelet state is reset and the bytes after the ESC
\* are dispatched: the terminal is not left capturing.
C9_OverflowReported ==
    [][(hist'.op = "pty_read" /\ Cut(term, hist'.arg) > 0
        /\ SizeAtEsc(term, term', Cut(term, hist'.arg)) > MAX_PAGELET_BYTES)
       => /\ term'.exc = ""
          /\ term'.gterm_output_buf = <<"error_message">>
          /\ \E k \in 1..Len(term'.cb) : term'.cb[k].kind = "graphterm_output"
          /\ SuffixDispatched(term, term', hist'.arg, Cut(term, hist'.arg))]_vars

\* the entries of the buffer now that were not in the buffer before
Inserted(now, before) ==
    {now.scroll_lines[k] :
        k \in {j \in 1..Len(now.scroll_lines) :
                  \A i \in 1..Len(before.scroll_lines) :
                      before.scroll_lines[i].pagelet_id # now.scroll_lines[j].pagelet_id}}

\* the read t -> r gave nothing of a pagelet's content the standing of
\* validated content
NothingTrusted(t, r) ==
    /\ \A k \in 1..Len(r.cb) : r.cb[k].kind \notin {"create_blob", "frame_msg"}
    /\ r.file_read = t.file_read
    /\ \A e \in Inserted(r.screen_buf, t.screen_buf) \cup
                 Inserted(r.note_screen_buf, t.note_screen_buf) :
           e.jtype = "" /\ e.markup \in {"none", "command"}

HasValidIntro(s) == Find(s, SET_PAGELET) >= 0

\* C10: a pagelet whose cookie is missing or is not the terminal's gives no
\* create_blob and no frame_msg event, reads no file, and inserts no scroll
\* entry of a non-plain kind or with markup of the payload; and the
\* validated flag is set only while the pagelet it was set for is captured.
C10_UnvalidatedUntrusted ==
    [][/\ (hist'.op = "pty_read" /\ ~term.gterm_validated /\ ~HasValidIntro(hist'.arg))
          => NothingTrusted(term, term')
       /\ term'.gterm_validated => term'.gterm_buf.set]_vars

\* an unvalidated pagelet with a create_blob header was read and went out as
\* a plain pagelet
C10_Witness ==
    /\ hist.op = "pty_read"
    /\ hist.arg = PG_BAD(<<HDR_BLOB, 98>>)
    /\ term.exc = ""
    /\ term.gterm_output_buf = <<"pagelet">>
    /\ \E k \in 1..Len(term.cb) : term.cb[k].kind = "graphterm_output"

---------------------------------------------------------------------------
(* The alternate screen: a full-screen program sets it, writes text and    *)
(* lines, erases, moves the cursor, resets the terminal, and leaves it.    *)

ALT_ON_1047 == CSI(<<QMARK, 49, 48, 52, 55>>, 104)
ALT_ON_1049 == CSI(<<QMARK, 49, 48, 52, 57>>, 104)
AltSets == { ALT_ON, ALT_ON_1047, ALT_ON_1049 }
ERASE_ALL == CSI(<<50>>, 74)
CURSOR_HOME == CSI(<< >>, 72)
RESET_TERM == <<ESC, 99>>

AltChunks == AltSets \cup { ALT_OFF, <<97>>, TEXT_LINE, ERASE_ALL, CURSOR_HOME, RESET_TERM }

NextAlt ==
    \/ PtyRead(AltChunks)
    \/ Update

SpecAlt == Init /\ [][NextAlt]_vars

\* every cell of the screen is zero and no row has metadata
Zeroed(scr) ==
    /\ \A k \in 1..Len(scr.data) : scr.data[k] = 0
    /\ \A k \in 1..Len(scr.meta) : scr.meta[k] = NoMeta

\* the last read was exactly a private-mode set of code 47, 1047 or 1049
AfterAltSet == hist.op = "pty_read" /\ hist.arg \in AltSets

\* the row_update event among the events evs reports alt_mode and full_update
ReportsFullAlt(evs) ==
    \E k \in 1..Len(evs) :
        evs[k].kind = "row_update" /\ evs[k].alt_mode /\ evs[k].full_update

\* C18: after a private-mode set with code 47, 1047 or 1049 the alternate
\* screen is the active screen and every cell of it is zero, and the update
\* that follows sends a row_update event with alt_mode and full_update true.
C18_AltSetFullUpdate ==
    [][AfterAltSet =>
          /\ term.alt_mode /\ term.screen = "alt" /\ Zeroed(term.alt_screen)
          /\ hist'.op = "update" => ReportsFullAlt(term'.cb)]_vars

\* the part of C18 about the screen alone
C18_AltSetZeroed ==
    AfterAltSet => term.alt_mode /\ term.screen = "alt" /\ Zeroed(term.alt_screen)

\* the main screen, active_rows and the scroll history of the main buffer
MainPart(t) ==
    [main_screen |-> t.main_screen, active_rows |-> t.active_rows,
     scroll_lines |-> t.screen_buf.scroll_lines,
     entry_index |-> t.screen_buf.entry_index,
     current_scroll_count |-> t.screen_buf.current_scroll_count]

\* C19: while the alternate screen is set, a read of bytes of the child and
\* an update leave the main screen, active_rows and the main scroll buffer
\* as they are; the reset makes the main screen the active one, unchanged,
\* with the cursor at (max(0, active_rows - 1), 0).
C19_MainFrozenInAlt ==
    [][term.alt_mode =>
          /\ MainPart(term') = MainPart(term)
          /\ (hist'.op = "pty_read" /\ hist'.arg = ALT_OFF) =>
                /\ ~term'.alt_mode /\ term'.screen = "main"
                /\ term'.cursor_y = Max(0, term.active_rows - 1)
                /\ term'.cursor_x = 0]_vars

---------------------------------------------------------------------------
(* Line wrap: text, line ends, the scroll region set by CSI r, and cursor  *)
(* positioning, on screens of several sizes.                               *)

REGION_TOP_ROW == CSI(<<49, SEMI, 49>>, 114)
REGION_ALL == CSI(<< >>, 114)
REGION_ROW2 == CSI(<<50, SEMI, 50>>, 114)
CURSOR_ROW2 == CSI(<<50, SEMI, 49>>, 72)

WrapChunks == { <<97>>, <<97, 98, BS>>, TEXT_LINE, CRLF, REGION_TOP_ROW, REGION_ROW2, REGION_ALL, CURSOR_ROW2,
               CURSOR_HOME }

NextWrap ==
    \/ PtyRead(WrapChunks)
    \/ Resize(Sizes)

SpecWrap == Init /\ [][NextWrap]_vars

\* n printable bytes: a, b, c, ...
Letters(n) == [k \in 1..n |-> 96 + k]

\* the cursor is at column 0 with eol = 0 and no sequence is pending
AtLineStart ==
    /\ term.exc = "" /\ term.cursor_x = 0 /\ term.cursor_eol = 0
    /\ term.buf = << >> /\ ~term.gterm_buf.set

\* Terminal.write of exactly width printable bytes, and of one more
FullRow == write(Begin(term), Letters(term.width))
Wrapped == write(FullRow, <<120>>)

\* the row the next byte is to go to: the following row, or the bottom row
\* of the scroll region again after the region has scrolled
RowAfter == IF term.cursor_y = term.scroll_bot THEN term.scroll_bot ELSE term.cursor_y + 1

\* C21: from column 0 with eol = 0, echoing exactly width printable bytes
\* leaves cursor_x = width - 1 and cursor_eol = 1 with the whole row written;
\* the next printable byte moves the cursor down and is written at column 0
\* of the following row, the region scrolling when the cursor was on its
\* bottom row.
C21_WrapAtWidth ==
    (AtLineStart /\ FullRow.exc = "") =>
        /\ FullRow.cursor_x = term.width - 1 /\ FullRow.cursor_eol = 1
        /\ FullRow.cursor_y = term.cursor_y
        /\ peek(FullRow, term.cursor_y, 0, term.cursor_y, term.width) = Letters(term.width)
        /\ Wrapped.exc = "" =>
              /\ Wrapped.cursor_y = RowAfter
              /\ peek(Wrapped, RowAfter, 0, RowAfter, 1) = <<120>>
              /\ Wrapped.cursor_x = 1 /\ Wrapped.cursor_eol = 0

\* str(n) for n >= 0
RECURSIVE Decimal(_)
Decimal(n) == IF n < 10 THEN <<48 + n>> ELSE Decimal(n \div 10) \o <<48 + (n % 10)>>

\* a CSI sequence without parameters, and the sequence with its documented
\* defaults: A, B, C, D with 1; H with 1;1; J and K with 0; r with 1;height
DefaultPairs ==
    { <<CSI(<< >>, c), CSI(<<49>>, c)>> : c \in {65, 66, 67, 68} }
    \cup { <<CSI(<< >>, 72), CSI(<<49, SEMI, 49>>, 72)>> }
    \cup { <<CSI(<< >>, c), CSI(<<48>>, c)>> : c \in {74, 75} }
    \cup { <<CSI(<< >>, 114), CSI(<<49, SEMI>> \o Decimal(term.height), 114)>> }

\* Terminal.write of the sequence s, without the record of the bytes read
Written(s) == [write(Begin(term), s) EXCEPT !.log = << >>]

NothingPending == term.exc = "" /\ term.buf = << >> /\ ~term.gterm_buf.set

\* C22: a CSI sequence without parameters leaves the Terminal as the same
\* sequence with its default parameters does: A, B, C, D as 1; H as 1;1;
\* J and K as 0; r as 1;height.
C22_CsiDefaults ==
    NothingPending => \A pair \in DefaultPairs : Written(pair[1]) = Written(pair[2])

\* a state in which the sequences act: the cursor is off the home position
\* on a row with text right of it, below the top of the region, and the
\* region is not the whole screen
C22_Witness ==
    /\ NothingPending
    /\ term.cursor_y > term.scroll_top /\ term.cursor_x > 0
    /\ term.scroll_bot < term.height - 1
    /\ Written(CSI(<< >>, 65)).cursor_y < term.cursor_y
    /\ Written(CSI(<< >>, 68)).cursor_x < term.cursor_x
    /\ Written(CSI(<< >>, 72)).cursor_y = 0
    /\ Written(CSI(<< >>, 114)).scroll_bot = term.height - 1
    /\ Written(CSI(<< >>, 74)).main_screen # term.main_screen
    /\ Written(CSI(<< >>, 75)).main_screen # term.main_screen

---------------------------------------------------------------------------
(* Escape sequences that never complete: ESC and an unknown byte, a CSI    *)
(* sequence of digits without end, read in pieces, among text.             *)

CSI_OPEN == <<ESC, LBRACKET>>
ESC_UNKNOWN == <<ESC, 122>>
DIGITS == [k \in 1..16 |-> 48]

EscChunks == { <<97>>, CRLF, <<ESC>>, CSI_OPEN, ESC_UNKNOWN, DIGITS, <<109>> }

NextEsc ==
    \/ PtyRead(EscChunks)
    \/ Update

SpecEsc == Init /\ [][NextEsc]_vars

\* a sequence is pending that the digit 0 does not complete
Pending ==
    /\ term.exc = "" /\ ~term.gterm_buf.set
    /\ term.buf # << >> /\ term.buf[1] = ESC
    /\ term.buf # <<ESC>> /\ term.buf # <<ESC, RBRACKET>> /\ term.buf # <<ESC, 40>>

\* Terminal.write of digits until the pending buffer has n bytes
FillTo(n) == write(Begin(term), [k \in 1..(n - Len(term.buf)) |-> 48])

\* the Terminal but for the pending buffer, the record of the bytes read, the
\* events of the last operation and the marks of the last output
Shown(t) ==
    [t EXCEPT !.buf = << >>, !.log = << >>, !.cb = << >>, !.output_time = 0, !.needs_updating = TRUE]

\* the Terminal after the first k bytes of the chunk c
AfterBytes(c, k) == write(Begin(term), SubSeq(c, 1, k))

\* C23: a pending escape buffer that no byte completes is held up to 32
\* bytes and discarded by the byte that makes it longer, and the byte after
\* that is dispatched as plain input; after each byte processed the buffer
\* holds at most 32 bytes.
C23_EscapeBufferBounded ==
    /\ term.exc = "" =>
          \A c \in EscChunks : \A k \in 0..Len(c) : Len(AfterBytes(c, k).buf) <= MAX_ESC_LEN
    /\ Pending =>
          /\ FillTo(MAX_ESC_LEN).buf = term.buf \o [k \in 1..(MAX_ESC_LEN - Len(term.buf)) |-> 48]
          /\ FillTo(MAX_ESC_LEN + 1).buf = << >>
          /\ Shown(FillTo(MAX_ESC_LEN + 1)) = Shown(term)
          /\ write(FillTo(MAX_ESC_LEN + 1), <<120>>) = echo([FillTo(MAX_ESC_LEN + 1) EXCEPT !.log = Append(@, <<120, "d">>)], 120)

\* the digits read have made the pending buffer longer than 32 bytes: it is
\* discarded and the last digit is on the screen
C23_Witness ==
    /\ hist.op = "pty_read" /\ hist.arg = DIGITS
    /\ term.exc = "" /\ term.buf = << >>
    /\ term.main_screen.data[1] = 48 /\ term.main_screen.data[2] = 0 /\ term.cursor_x = 1

---------------------------------------------------------------------------
(* The scroll region: CSI r with parameters in and out of range and in the *)
(* wrong order, ESC c, resizes, and the notebook switched on and off.      *)

REGION_ZERO == CSI(<<48, SEMI, 48>>, 114)
REGION_BEYOND == CSI(<<57, SEMI, 57>>, 114)
REGION_REVERSED == CSI(<<50, SEMI, 49>>, 114)

RegionChunks == { <<97>>, TEXT_LINE, REGION_TOP_ROW, REGION_ROW2, REGION_ALL, REGION_ZERO,
                  REGION_BEYOND, REGION_REVERSED, RESET_TERM }

NextRegion ==
    \/ PtyRead(RegionChunks)
    \/ Resize(Sizes)
    \/ NotebookOn(NotePromptSets)
    \/ NotebookOff

SpecRegion == Init /\ [][NextRegion]_vars

\* C24: in every reachable state scroll_top <= scroll_bot < height.
C24_ScrollRegionOrdered ==
    term.scroll_top <= term.scroll_bot /\ term.scroll_bot < term.height

\* CSI r has been read with a bottom above its top, on a screen resized
C24_Witness ==
    /\ hist.op = "pty_read" /\ hist.arg = REGION_REVERSED
    /\ term.scroll_top = 1 /\ term.scroll_bot = 1
    /\ term.height # HEIGHT

\* C26: while notebook mode is active the scroll region is the whole screen:
\* scroll_top = 0 and scroll_bot = height - 1.
C26_NotebookRegionPinned ==
    term.note_cells.active => term.scroll_top = 0 /\ term.scroll_bot = term.height - 1

\* what Terminal.notebook and Terminal.reset set while notebook mode is
\* active: the region is row 0 alone
NotebookRegionRow0 ==
    term.note_cells.active => term.scroll_top = 0 /\ term.scroll_bot = 0

---------------------------------------------------------------------------
(* Feeding a notebook cell: prompts of the shell and of an interpreter,    *)
(* text, and a cursor moved off the first row, after the notebook is       *)
(* switched on and a cell is executed.                                     *)

SHELL_PROMPT == SET_PROMPT \o <<100>> \o END_PROMPT \o <<DOLLAR>>
REPL_PROMPT == <<62, SPACE>>
ROW2_DOLLAR == CURSOR_ROW2 \o <<DOLLAR>>

FeedChunks == { <<97>>, SHELL_PROMPT, REPL_PROMPT, <<CR>>, ROW2_DOLLAR, SHELL_PROMPT \o ROW2_DOLLAR }
FeedInputs == { <<120>>, <<120, LF, 121>> }

NextFeed ==
    \/ PtyRead(FeedChunks)
    \/ NotebookOn(NotePromptSets)
    \/ ExecCell(FeedInputs)

SpecFeed == Init /\ [][NextFeed]_vars

\* the text of the cursor row
CursorLine(t) == dump(peek(t, t.cursor_y, 0, t.cursor_y, t.width), TRUE)

\* the cursor row begins with a configured prompt
AtPrompt(t) == StartsWithAny(CursorLine(t), t.note_prompts)

\* the cursor row bears the metadata of a command head
AtCommandHead(t) ==
    /\ PyIndexOk(t.cursor_y, Len(t.main_screen.meta))
    /\ MetaAt(t.main_screen, t.cursor_y).set /\ MetaAt(t.main_screen, t.cursor_y).cont = 0

\* the lines exec_cell has the emulator feed for input_data
InputLines(input_data) ==
    IF SplitLines(input_data, << >>)[Len(SplitLines(input_data, << >>))] # << >>
    THEN Append(SplitLines(input_data, << >>), << >>)
    ELSE SplitLines(input_data, << >>)

\* C27: after exec_cell with prompts known, note_input holds the lines of
\* the cell in order; a read of the child's bytes sends at most one of them,
\* the first, and only when the cursor row begins with a configured prompt
\* or, at the shell, bears the metadata of a command head; a read that ends
\* at a configured prompt does send one, so that note_input becomes empty.
C27_PromptGatedFeeding ==
    [][/\ (hist'.op = "exec_cell" /\ term'.exc = "" /\ term.note_prompts # << >>
            /\ term.note_cells.curIndex # 0) =>
              term'.note_input = InputLines(hist'.arg)
       /\ (hist'.op = "pty_read" /\ term'.exc = "") =>
              /\ term'.note_input = term.note_input \/ term'.note_input = Tail(term.note_input)
              /\ term'.note_input # term.note_input =>
                    AtPrompt(term') \/ (term'.note_shell /\ AtCommandHead(term'))
              /\ (term.note_input # << >> /\ AtPrompt(term')) =>
                    term'.note_input = Tail(term.note_input)]_vars

---------------------------------------------------------------------------
(* The cells of a notebook: cells added at the end and before the first    *)
(* cell, executed, their output read, and the notebook switched off.       *)

CellChunks == { <<98>> \o CRLF, REPL_PROMPT }
CellInputs == { <<120>>, <<121>> }

NextCells ==
    \/ NotebookOn({ << REPL_PROMPT >> })
    \/ ExecCell(CellInputs)
    \/ AddCellBefore({0, 1})
    \/ PtyRead(CellChunks)
    \/ NotebookOff

SpecCells == Init /\ [][NextCells]_vars

\* the notebook left as Terminal.notebook leaves it before the cells are copied
Left == leave_cell(Begin(term), FALSE, FALSE).t

\* the cells in the order of the list cellIndices
InIndexOrder(t) ==
    [k \in 1..Len(t.note_cells.cellIndices) |->
        t.note_cells.cells[CellPos(t, t.note_cells.cellIndices[k])]]

\* line and class of the entries a cell is to leave in the main buffer
InputPart(cell, prompt) ==
    IF cell.cellInput = << >> THEN << >>
    ELSE [k \in 1..Len(cell.cellInput) |-> <<cell.cellInput[k], "gterm-cell-input">>]
         \o << <<prompt, "">> >>

OutputPart(cell) ==
    [k \in 1..Len(cell.cellOutput) |-> <<cell.cellOutput[k].line, cell.cellOutput[k].add_class>>]

RECURSIVE FlushOf(_, _)
FlushOf(cells, prompt) ==
    IF cells = << >> THEN << >>
    ELSE InputPart(cells[1], prompt) \o OutputPart(cells[1]) \o FlushOf(Tail(cells), prompt)

\* line and class of the entries of a ScreenBuf
LinesOf(sb) ==
    [k \in 1..Len(sb.scroll_lines) |-> <<sb.scroll_lines[k].line, sb.scroll_lines[k].add_class>>]

\* Terminal.notebook(False)
Off == notebook(Begin(term), FALSE, << >>)

\* the notebook can be switched off and the main buffer has room for its cells
CanFlush ==
    /\ term.exc = "" /\ term.note_cells.active /\ Off.exc = ""
    /\ Len(term.screen_buf.scroll_lines)
          + Len(FlushOf(InIndexOrder(Left), Left.note_prompts[1])) <= MAX_SCROLL_LINES

\* C28: switching the notebook off appends to the main scroll buffer, for the
\* cells in the order of cellIndices, the input lines of the cell with class
\* gterm-cell-input and one prompt line, if the cell has input, and then
\* the stripped output of the cell.
C28_CellsFlushedInOrder ==
    CanFlush =>
        LinesOf(Off.screen_buf)
            = LinesOf(term.screen_buf) \o FlushOf(InIndexOrder(Left), Left.note_prompts[1])

\* the same with the cells in the order they were created
CellsFlushedAsCreated ==
    CanFlush =>
        LinesOf(Off.screen_buf)
            = LinesOf(term.screen_buf) \o FlushOf(Left.note_cells.cells, Left.note_prompts[1])

---------------------------------------------------------------------------
(* Clearing the last entry of the main scroll buffer.                      *)

\* command lines and plain lines, read in the shell and in a notebook
ClearChunks == { TEXT_LINE, PROMPT_LINE, TEXT_LINE \o PROMPT_LINE }

NextClear ==
    \/ PtyRead(ClearChunks)
    \/ NotebookOn({ << REPL_PROMPT >> })
    \/ NotebookOff
    \/ ClearLastEntry

SpecClear == Init /\ [][NextClear]_vars

\* ScreenBuf.clear_last_entry on the main buffer, as Terminal.clear_last_entry
\* calls it
Cleared(n) == clear_last_entry(term.screen_buf, n)

\* the call took effect
TakesEffect(n) == Cleared(n) /= term.screen_buf

\* the scroll lines the call removed
RemovedLines(n) ==
    SubSeq(term.screen_buf.scroll_lines,
           Len(Cleared(n).scroll_lines) + 1, Len(term.screen_buf.scroll_lines))

EntryIndexGone(n) ==
    \A k \in 1..Len(Cleared(n).scroll_lines) :
        Cleared(n).scroll_lines[k].jindex /= term.screen_buf.entry_index

BlobsDeleted(n) ==
    \A k \in 1..Len(RemovedLines(n)) :
        RemovedLines(n)[k].blob /= ""
            => \E j \in 1..Len(Cleared(n).delete_blob_ids) :
                   Cleared(n).delete_blob_ids[j] = RemovedLines(n)[k].blob

ClearedCounts(n) ==
    /\ Cleared(n).entry_index = term.screen_buf.entry_index - 1
    /\ Cleared(n).current_scroll_count
          = term.screen_buf.current_scroll_count - Len(RemovedLines(n))
    /\ Cleared(n).scroll_lines
          = SubSeq(term.screen_buf.scroll_lines, 1, Len(Cleared(n).scroll_lines))

\* C29: after a clear_last_entry that takes effect no scroll line with the
\* cleared entry_index remains, entry_index is one less, current_scroll_count
\* is less by the number of lines removed, and the blob id of every removed
\* line is in delete_blob_ids.
C29_ClearLastEntryComplete ==
    \A n \in {0, term.screen_buf.entry_index} :
        (term.exc = "" /\ TakesEffect(n))
            => EntryIndexGone(n) /\ ClearedCounts(n) /\ BlobsDeleted(n)

\* the same without the line on the entry_index of the lines that remain
ClearLastEntryTail ==
    \A n \in {0, term.screen_buf.entry_index} :
        (term.exc = "" /\ TakesEffect(n)) => ClearedCounts(n) /\ BlobsDeleted(n)

---------------------------------------------------------------------------
(* Retirement of a command that takes more than one row: the command head  *)
(* and its continuation rows, scrolled out by cursor_down and retired by   *)
(* scroll_screen.                                                          *)

\* a prompt and a command one byte longer than the row
LONG_COMMAND == SET_PROMPT \o <<100>> \o END_PROMPT \o <<DOLLAR, 99, 100, 101>>
PROMPT_HEAD == SET_PROMPT \o <<100>> \o END_PROMPT \o <<DOLLAR>>

RetireChunks == { LONG_COMMAND, PROMPT_HEAD, CRLF, TEXT_LINE }

NextRetire ==
    \/ PtyRead(RetireChunks)
    \/ Update
    \/ Resize(Sizes)

SpecRetire == Init /\ [][NextRetire]_vars

\* the shell's main screen is the one written
InShell == term.exc = "" /\ ~term.alt_mode /\ ~term.note_cells.active

RowMeta(y) == MetaAt(term.main_screen, y)

IsHead(y) == RowMeta(y).set /\ RowMeta(y).cont = 0

IsContinuation(y) == RowMeta(y).set /\ RowMeta(y).cont > 0

\* the text of the command that starts at row y: the row and its continuation rows
CommandText(y, rows) ==
    dump(PySlice(term.main_screen.data, term.width * y,
                 term.width * LastContinuation(term, y, rows) + term.width), TRUE)

\* scroll entries added to the main buffer
Added(sb) == sb.current_scroll_count - term.screen_buf.current_scroll_count

\* the next cursor_down scrolls the region up
AtRegionEnd ==
    /\ term.scroll_top >= 0 /\ term.scroll_top <= term.cursor_y
    /\ term.cursor_y = term.scroll_bot /\ term.scroll_bot < term.height

Down == cursor_down(term)

\* cursor_down retires a command head with its continuation rows, and no
\* continuation row
CursorDownWhole ==
    (InShell /\ AtRegionEnd /\ Down.exc = "") =>
        /\ IsContinuation(term.scroll_top) => Added(Down.screen_buf) = 0
        /\ IsHead(term.scroll_top) =>
              /\ Added(Down.screen_buf) = 1
              /\ Down.screen_buf.scroll_lines[Len(Down.screen_buf.scroll_lines)].line
                    = CommandText(term.scroll_top, term.active_rows)

ScrollRows == LastPromptRow(term, term.pdelim, term.active_rows - 1)

Scrolled == scroll_screen(term, NoneInt)

\* scroll_screen retires one entry for every row that is not a continuation
\* row, and a command head at the top with its continuation rows
ScrollScreenWhole ==
    (InShell /\ Scrolled.exc = "") =>
        /\ Added(Scrolled.screen_buf)
              = Cardinality({ y \in 0..(ScrollRows - 1) : ~IsContinuation(y) })
        /\ (ScrollRows > 0 /\ IsHead(0)
              /\ Len(term.screen_buf.scroll_lines) < MAX_SCROLL_LINES) =>
              Scrolled.screen_buf.scroll_lines[Len(term.screen_buf.scroll_lines) + 1].line
                  = CommandText(0, ScrollRows)

\* C30: on every retirement path, the scroll-up in cursor_down and
\* scroll_screen, a command head and its continuation rows are retired as
\* one scroll entry with the concatenated text, and a continuation row never
\* becomes a scroll entry of its own.
C30_CommandRetiredWhole == CursorDownWhole /\ ScrollScreenWhole

\* scroll_screen alone: the same while no continuation row has been left at
\* the top of the screen
ScrollScreenWholeFromHead == ~IsContinuation(0) => ScrollScreenWhole

\* a command head and a continuation row are above a prompt row
HeadAndContinuationAbovePrompt ==
    InShell /\ ScrollRows = 2 /\ IsHead(0) /\ IsContinuation(1) /\ term.main_screen.data[4] = 101

---------------------------------------------------------------------------
(* The periodic update of the main screen: the rows above the last prompt  *)
(* row are retired and the rest moves to the top.                          *)

PeriodicChunks == { PROMPT_LINE, PROMPT_HEAD, TEXT_LINE, <<97>>, CURSOR_HOME, ALT_ON, ALT_OFF }

NextPeriodic ==
    \/ PtyRead(PeriodicChunks)
    \/ Update
    \/ Resize(Sizes)

SpecPeriodic == Init /\ [][NextPeriodic]_vars

\* Terminal.update as the loop calls it
Updated == update(Begin(term))

\* the cells of row y of the main screen
RowData(y) == PySlice(term.main_screen.data, term.width * y, term.width * (y + 1))

\* the active rows that are prompt rows
PromptRows ==
    { y \in 0..(term.active_rows - 1) :
        prompt_offset(dump(RowData(y), FALSE), term.pdelim, RowMeta(y)) # 0 }

\* the last prompt row; 0 if there is none
LastPrompt ==
    IF PromptRows = {} THEN 0
    ELSE CHOOSE y \in PromptRows : \A z \in PromptRows : z <= y

\* the text of the rows y..p-1 from top to bottom, a command head with its
\* continuation rows
RECURSIVE RetiredEntries(_, _)
RetiredEntries(y, p) ==
    IF y >= p THEN << >>
    ELSE <<CommandText(y, p)>> \o RetiredEntries(LastContinuation(term, y, p) + 1, p)

\* the text of the last n scroll lines of a ScreenBuf
LastLines(sb, n) ==
    [k \in 1..n |-> sb.scroll_lines[Len(sb.scroll_lines) - n + k].line]

InMainMode == InShell /\ Updated.exc = ""

RetiresAbovePrompt ==
    /\ Added(Updated.screen_buf) = Len(RetiredEntries(0, LastPrompt))
    /\ Len(term.screen_buf.scroll_lines) + Len(RetiredEntries(0, LastPrompt)) <= MAX_SCROLL_LINES
         => /\ Len(Updated.screen_buf.scroll_lines)
                  = Len(term.screen_buf.scroll_lines) + Len(RetiredEntries(0, LastPrompt))
            /\ LastLines(Updated.screen_buf, Len(RetiredEntries(0, LastPrompt)))
                  = RetiredEntries(0, LastPrompt)

RestMovesUp ==
    /\ Updated.active_rows = term.active_rows - LastPrompt
    /\ PySlice(Updated.main_screen.data, 0, term.width * Updated.active_rows)
          = PySlice(term.main_screen.data, term.width * LastPrompt, term.width * term.active_rows)
    /\ PySlice(Updated.main_screen.meta, 0, Updated.active_rows)
          = PySlice(term.main_screen.meta, LastPrompt, term.active_rows)

CursorMovesUp == Updated.cursor_y = term.cursor_y - LastPrompt

NothingRetiredInAlt ==
    (term.exc = "" /\ term.alt_mode /\ Updated.exc = "") =>
        /\ Updated.screen_buf.scroll_lines = term.screen_buf.scroll_lines
        /\ Added(Updated.screen_buf) = 0
        /\ Updated.main_screen = term.main_screen
        /\ Updated.active_rows = term.active_rows

\* C31: a periodic update in main-screen mode retires exactly the active rows
\* above the last prompt row, from top to bottom, and moves the remaining
\* rows, data and metadata, to the top with active_rows and cursor_y reduced
\* by the number retired; with no prompt row, and in alternate-screen mode,
\* it retires nothing.
C31_UpdateRetiresAbovePrompt ==
    /\ InMainMode => RetiresAbovePrompt /\ RestMovesUp /\ CursorMovesUp
    /\ NothingRetiredInAlt

\* cursor_y is reduced by the number retired, and is 0 if it was above the
\* last prompt row
CursorMovesUpOrTop == Updated.cursor_y = Max(0, term.cursor_y - LastPrompt)

\* C31, amended: a periodic update in main-screen mode retires exactly the
\* active rows above the last prompt row, from top to bottom, and moves the
\* remaining rows, data and metadata, to the top with active_rows reduced by
\* the number retired and cursor_y reduced by it but not below 0; with no
\* prompt row, and in alternate-screen mode, it retires nothing.
C31_UpdateRetiresAbovePromptOrTop ==
    /\ InMainMode => RetiresAbovePrompt /\ RestMovesUp /\ CursorMovesUpOrTop
    /\ NothingRetiredInAlt

\* rows are retired while the cursor is above the last prompt row
C31_Witness ==
    /\ InMainMode /\ LastPrompt > 0 /\ term.cursor_y < LastPrompt
    /\ Added(Updated.screen_buf) > 0
    /\ hist.op = "pty_read"

---------------------------------------------------------------------------
(* A resize to another width or height.                                    *)

\* the sizes other than the one the terminal has
OtherSizes == { hw \in Sizes : hw # <<term.height, term.width>> }

Changes(hw) == term.exc = "" /\ hw \in OtherSizes /\ ResizeOnce(hw).exc = ""

AllZero(data) == \A k \in 1..Len(data) : data[k] = NUL

\* both screens have the size hw
HasSize(t, hw) ==
    /\ t.height = hw[1] /\ t.width = hw[2]
    /\ Len(t.main_screen.data) = hw[1] * hw[2] /\ Len(t.main_screen.meta) = hw[1]
    /\ Len(t.alt_screen.data) = hw[1] * hw[2] /\ Len(t.alt_screen.meta) = hw[1]

\* both screens are blank but for row 0 of the main screen, which is written
\* only if it is the one active row
BlankButPrompt(t) ==
    /\ AllZero(t.alt_screen.data)
    /\ AllZero(PySlice(t.main_screen.data, t.width, Len(t.main_screen.data)))
    /\ t.active_rows \in {0, 1}
    /\ t.active_rows = 0 => AllZero(t.main_screen.data)

RegionIsScreen(t) == t.scroll_top = 0 /\ t.scroll_bot = t.height - 1

IsRowUpdate(e) == e.kind = "row_update"

\* the row_update events of the update that follows
RowUpdates(t) == SelectSeq(update(Begin(t)).cb, IsRowUpdate)

NextIsFullUpdate(t) ==
    update(Begin(t)).exc = "" =>
        /\ t.note_cells.active \/ RowUpdates(t) # << >>
        /\ \A k \in 1..Len(RowUpdates(t)) : RowUpdates(t)[k].full_update

\* C32: after a resize that changes width or height both screens have the
\* new size and are blank, but that row 0 of the main screen may hold the
\* restored prompt line, active_rows is 0 or 1, the scroll region is the
\* whole screen, and the next row_update event is a full update.
C32_ResizeClears ==
    \A hw \in Sizes :
        Changes(hw) =>
            /\ HasSize(ResizeOnce(hw), hw)
            /\ BlankButPrompt(ResizeOnce(hw))
            /\ RegionIsScreen(ResizeOnce(hw))
            /\ NextIsFullUpdate(ResizeOnce(hw))

\* the screens alone
ResizeClearsScreens ==
    \A hw \in Sizes :
        Changes(hw) => HasSize(ResizeOnce(hw), hw) /\ BlankButPrompt(ResizeOnce(hw))

\* the main ScreenBuf has recorded the size the terminal has
SizeReported ==
    term.screen_buf.width = term.width /\ term.screen_buf.height = term.height

\* the full update, after a resize from a size that an update has reported
ResizeFullFromReported ==
    \A hw \in Sizes :
        (Changes(hw) /\ SizeReported) => NextIsFullUpdate(ResizeOnce(hw))

\* the scroll region after the resize, in the shell
ResizeRegionInShell ==
    \A hw \in Sizes :
        (Changes(hw) /\ ~term.note_cells.active) => RegionIsScreen(ResizeOnce(hw))

---------------------------------------------------------------------------
(* Editing the screen: text, cursor positioning, insert and delete line,   *)
(* reverse index, erase and delete of characters, on both screens.         *)

INSERT_LINE == CSI(<< >>, 76)
DELETE_LINE == CSI(<< >>, 77)
REVERSE_INDEX == <<ESC, 77>>
ERASE_CHARS == CSI(<<57>>, 88)
DELETE_CHARS == CSI(<<57>>, 80)
CURSOR_LAST == CSI(<<57, SEMI, 57>>, 72)

EditChunks == { <<97>>, TEXT_LINE \o <<97>>, CURSOR_HOME, CURSOR_LAST, INSERT_LINE, DELETE_LINE,
                REVERSE_INDEX, ERASE_CHARS, DELETE_CHARS, ERASE_ALL, ALT_ON }

NextEdit ==
    \/ PtyRead(EditChunks)
    \/ Update
    \/ Resize(Sizes)

SpecEdit == Init /\ [][NextEdit]_vars

\* the cells of the main screen from row active_rows on
BelowActive == PySlice(term.main_screen.data, term.width * term.active_rows, Len(term.main_screen.data))

\* C33: in every reachable state every row of the main screen at index
\* active_rows or more holds only zero cells.
C33_BelowActiveEmpty == term.exc = "" => AllZero(BelowActive)

\* the chunks that do not move rows down
EditChunksNoDown == { c \in EditChunks : c # INSERT_LINE /\ c # REVERSE_INDEX }

NextEditNoDown ==
    \/ PtyRead(EditChunksNoDown)
    \/ Update
    \/ Resize(Sizes)

\* the editing operations without insert line and reverse index: under this
\* specification the rows below active_rows stay empty
SpecEditNoDown == Init /\ [][NextEditNoDown]_vars

---------------------------------------------------------------------------
(* Queries of the child: device attributes, status, cursor position and    *)
(* terminal parameters, one and several in one read.                       *)

QUERY_DA == CSI(<< >>, 99)
QUERY_SDA == CSI(<<62>>, 99)
QUERY_SR == CSI(<<53>>, 110)
QUERY_CPR == CSI(<<54>>, 110)
QUERY_TPR == CSI(<< >>, 120)

Queries == { QUERY_DA, QUERY_SDA, QUERY_SR, QUERY_CPR, QUERY_TPR }

QueryChunks == Queries \cup { <<97>>, CRLF, <<ESC>>, QUERY_SR \o QUERY_CPR, RESET_TERM }

NextQuery ==
    \/ PtyRead(QueryChunks)
    \/ Update

SpecQuery == Init /\ [][NextQuery]_vars

\* the reply to the query q
ReplyOf(q) ==
    CASE q = QUERY_DA -> "da"
      [] q = QUERY_SDA -> "sda"
      [] q = QUERY_SR -> "sr"
      [] q = QUERY_CPR -> "cpr"
      [] q = QUERY_TPR -> "tpr"

\* what Terminal.read returns in pty_read after the bytes s are written
ReadAfter(s) == Written(s).outbuf

\* C34: every query processed during a write is answered: the next read
\* returns the replies to the queries received since the read before, in
\* the order of the queries, and leaves the output buffer empty.
C34_QueriesAnswered ==
    /\ term.exc = "" => term.outbuf = << >>
    /\ NothingPending =>
          \A q1 \in Queries :
              /\ ReadAfter(q1) = <<ReplyOf(q1)>>
              /\ \A q2 \in Queries : ReadAfter(q1 \o q2) = <<ReplyOf(q1), ReplyOf(q2)>>

\* one query in a write is answered, and the read empties the buffer
OneQueryAnswered ==
    /\ term.exc = "" => term.outbuf = << >>
    /\ NothingPending => \A q1 \in Queries : ReadAfter(q1) = <<ReplyOf(q1)>>

\* of several queries in a write the last one is answered
LastQueryAnswered ==
    NothingPending =>
        \A q1 \in Queries : \A q2 \in Queries : ReadAfter(q1 \o q2) = <<ReplyOf(q2)>>

---------------------------------------------------------------------------
(* The scroll entries the front end is sent, step by step.                 *)

\* the entries of the main buffer the next update is to send
PendingScroll(t) == UpdateScroll(t.screen_buf, FALSE)

\* the entries the row_update events evs carry
RECURSIVE SentScroll(_)
SentScroll(evs) ==
    IF evs = << >> THEN << >>
    ELSE (IF evs[1].kind = "row_update" THEN evs[1].update_scroll ELSE << >>)
         \o SentScroll(Tail(evs))

IsPrefix(a, b) == Len(a) <= Len(b) /\ SubSeq(b, 1, Len(a)) = a

\* the entries that sb2 has after those of sb1
AppendedTo(sb1, sb2) == SubSeq(sb2.scroll_lines, Len(sb1.scroll_lines) + 1, Len(sb2.scroll_lines))

\* a step that appends entries: the entries pending before it and the
\* appended ones are sent by the step or pending after it, in this order
AppendedReachFrontEnd(t1, t2) ==
    IsPrefix(t1.screen_buf.scroll_lines, t2.screen_buf.scroll_lines) =>
        SentScroll(t2.cb) \o PendingScroll(t2) = PendingScroll(t1) \o AppendedTo(t1.screen_buf, t2.screen_buf)

\* the step reads a pagelet that overwrites the last entry in place
OverwritesInPlace(h) == h.op = "pty_read" /\ h.arg = PG(<<DIR_OVER>>)

\* a clear_last_entry: of the pending entries, those that remain are pending
RemainingStayPending(t1, t2) ==
    /\ SentScroll(t2.cb) = << >>
    /\ PendingScroll(t2)
          = SubSeq(t2.screen_buf.scroll_lines,
                   Min(Len(t1.screen_buf.scroll_lines) - Len(PendingScroll(t1)),
                       Len(t2.screen_buf.scroll_lines)) + 1,
                   Len(t2.screen_buf.scroll_lines))

---------------------------------------------------------------------------
(* Reconnecting between two updates.                                       *)

ReconnectChunks == { <<97>>, TEXT_LINE, TEXT_LINE \o PROMPT_LINE, ALT_ON \o <<98>>, ALT_OFF,
                     CURSOR_HOME }

NextReconnect ==
    \/ PtyRead(ReconnectChunks)
    \/ Update
    \/ Resize(Sizes)
    \/ Reconnect
    \/ NotebookOn(NotePromptSets)
    \/ NotebookOff

SpecReconnect == Init /\ [][NextReconnect]_vars

\* what ScreenBuf.update compares with and advances when not reconnecting
DeltaState(sb) ==
    <<sb.last_scroll_count, sb.full_update, sb.main_screen, sb.alt_screen,
      sb.cursorx, sb.cursory, sb.width, sb.height>>

IsDelta(e) == e.kind \in {"row_update", "note_row_update"}

\* the row_update and note_row_update events of Terminal.update on t
Deltas(t) == SelectSeq(update(Begin(t)).cb, IsDelta)

\* the events of t2 have a full row_update with every scroll line of the main
\* buffer of t1 and, in notebook mode, a full note_row_update with what
\* strip_prompt_lines keeps of every scroll line of the notebook buffer
EmitsEntireScroll(t1, t2) ==
    /\ \E k \in 1..Len(t2.cb) :
          /\ t2.cb[k].kind = "row_update"
          /\ t2.cb[k].full_update
          /\ t2.cb[k].update_scroll = t1.screen_buf.scroll_lines
    /\ t1.note_cells.active =>
          \E k \in 1..Len(t2.cb) :
             /\ t2.cb[k].kind = "note_row_update"
             /\ t2.cb[k].full_update
             /\ t2.cb[k].update_scroll
                   = strip_prompt_lines(t1.note_screen_buf.scroll_lines, t1.note_prompts)

DeltaStateKept(t1, t2) ==
    /\ DeltaState(t2.screen_buf) = DeltaState(t1.screen_buf)
    /\ DeltaState(t2.note_screen_buf) = DeltaState(t1.note_screen_buf)
    /\ t2.screen_buf.scroll_lines = t1.screen_buf.scroll_lines
    /\ t2.note_screen_buf.scroll_lines = t1.note_screen_buf.scroll_lines

\* C36: a reconnect emits the whole scroll buffer in a full update and leaves
\* last_scroll_count, the full_update flag, the shadow screens, the shadow
\* cursor and the recorded width and height of the ScreenBufs as they were;
\* the update that follows it emits the row and scroll delta that it would
\* have emitted without the reconnect.
C36_ReconnectKeepsDelta ==
    [][(hist'.op = "reconnect" /\ term.exc = "" /\ term'.exc = "") =>
          /\ EmitsEntireScroll(term, term')
          /\ DeltaStateKept(term, term')
          /\ update(Begin(term')).exc = update(Begin(term)).exc
          /\ Deltas(term') = Deltas(term)]_vars

\* a reconnect that emitted scroll lines, with scroll lines and rows that the
\* next update is still to send
C36_Witness ==
    /\ hist.op = "reconnect"
    /\ term.exc = ""
    /\ term.screen_buf.scroll_lines # << >>
    /\ update(Begin(term)).exc = ""
    /\ \E k \in 1..Len(Deltas(term)) :
          /\ ~Deltas(term)[k].full_update
          /\ Deltas(term)[k].update_rows # << >>
          /\ Deltas(term)[k].update_scroll # << >>

---------------------------------------------------------------------------
(* The cells of a notebook added, switched between, deleted and executed.  *)

CellNumbers == 0..MaxCells

NextNotebook ==
    \/ NotebookOn({ << REPL_PROMPT >> })
    \/ AddCellBefore(CellNumbers)
    \/ SwitchCell(CellNumbers)
    \/ DeleteCell
    \/ ExecCell(CellInputs)
    \/ PtyRead(CellChunks)

SpecNotebook == Init /\ [][NextNotebook]_vars

InNotebook(t) == t.exc = "" /\ t.note_cells.active

InsertAt(seq, pos, v) == SubSeq(seq, 1, pos - 1) \o <<v>> \o SubSeq(seq, pos, Len(seq))

\* the place in the list that add_cell(before_cell_number = k) is to give the
\* new cell: after the current cell, or before the k-th cell
PlaceOf(t, k) ==
    IF k = 0 THEN IndexOf(t.note_cells.cellIndices, t.note_cells.curIndex) + 1 ELSE k

\* add_cell(before_cell_number = k) on t puts the new cell at PlaceOf(t, k)
\* and makes it the current cell
AddsCellAt(t, k) ==
    /\ add_cell(Begin(t), k).note_cells.cellIndices
          = InsertAt(t.note_cells.cellIndices, PlaceOf(t, k), t.note_cells.maxIndex + 1)
    /\ add_cell(Begin(t), k).note_cells.curIndex = t.note_cells.maxIndex + 1

\* C37: add_cell with before_cell_number = 0 inserts the new cell right after
\* the current cell, with before_cell_number = k (1 <= k <= number of cells)
\* right before the k-th cell, and the new cell becomes the current cell.
C37_AddCellPlace ==
    \A k \in 0..Len(term.note_cells.cellIndices) :
        (InNotebook(term) /\ add_cell(Begin(term), k).exc = "") => AddsCellAt(term, k)

\* add_cell as the code has it: before_cell_number = 0 puts the new cell at
\* the end of the list
PlaceOfAtEnd(t, k) == IF k = 0 THEN Len(t.note_cells.cellIndices) + 1 ELSE k

AddCellPlaceAtEnd ==
    \A k \in 0..Len(term.note_cells.cellIndices) :
        (InNotebook(term) /\ add_cell(Begin(term), k).exc = "") =>
            /\ add_cell(Begin(term), k).note_cells.cellIndices
                  = InsertAt(term.note_cells.cellIndices, PlaceOfAtEnd(term, k),
                             term.note_cells.maxIndex + 1)
            /\ add_cell(Begin(term), k).note_cells.curIndex = term.note_cells.maxIndex + 1

\* the keys of the cell map, and the indices in the ordered list
CellKeys(t) == { t.note_cells.cells[k].cellIndex : k \in 1..Len(t.note_cells.cells) }
Listed(t) == { t.note_cells.cellIndices[k] : k \in 1..Len(t.note_cells.cellIndices) }

CellsWellFormed(t) ==
    /\ Cardinality(Listed(t)) = Len(t.note_cells.cellIndices)
    /\ Cardinality(CellKeys(t)) = Len(t.note_cells.cells)
    /\ Listed(t) = CellKeys(t)
    /\ \A i \in Listed(t) : i <= t.note_cells.maxIndex

CellOps == {"add_cell", "switch_cell", "delete_cell", "exec_cell"}

\* C38: in notebook mode, after add_cell, switch_cell, delete_cell and
\* exec_cell the ordered index list has no duplicates and holds exactly the
\* keys of the cell map, every index is at most maxIndex, maxIndex does not
\* decrease, and a cell that is new has an index above every index given
\* before, so that the index of a deleted cell is not given again.
C38_CellStructure ==
    [][(InNotebook(term) /\ hist'.op \in CellOps) =>
          /\ CellsWellFormed(term')
          /\ term'.note_cells.maxIndex >= term.note_cells.maxIndex
          /\ \A i \in CellKeys(term') : i \in CellKeys(term) \/ i > term.note_cells.maxIndex]_vars

\* a cell added after a cell was deleted
C38_Witness ==
    /\ hist.op = "add_cell"
    /\ InNotebook(term)
    /\ Len(term.note_cells.cells) >= 2
    /\ \E i \in 1..term.note_cells.maxIndex : i \notin CellKeys(term)

SelectOps == {"add_cell", "switch_cell", "delete_cell"}

CurIndexValid(t) == t.note_cells.curIndex # 0 /\ HasCell(t, t.note_cells.curIndex)

\* C39: in notebook mode, after add_cell, switch_cell and delete_cell (each
\* of which selects a cell with select_cell or as select_cell does), completed
\* or failed, curIndex is not 0 and is a key of the cell map; a call that
\* fails its assertion leaves the notebook as it was.
C39_CurIndexValid ==
    [][(InNotebook(term) /\ hist'.op \in SelectOps) =>
          /\ CurIndexValid(term')
          /\ term'.exc # "" => term'.note_cells = term.note_cells]_vars

\* the calls that complete leave curIndex at a cell of the map
CurIndexValidWhenCompleted ==
    [][(InNotebook(term) /\ hist'.op \in SelectOps /\ term'.exc = "") =>
          CurIndexValid(term')]_vars

---------------------------------------------------------------------------
(* The lengths of the screens' data and metadata.                          *)

\* the data of a screen has width * height cells, its metadata height slots
ScreenHasSize(t, screen) ==
    /\ Len(screen.data) = t.width * t.height
    /\ Len(screen.meta) = t.height

\* C40: in every reachable state the data of the main screen and of the
\* alternate screen has width * height cells and the metadata height slots.
C40_ScreenSizes ==
    term.exc = "" => ScreenHasSize(term, term.main_screen) /\ ScreenHasSize(term, term.alt_screen)

\* the lengths without the sequence that erases characters
EditChunksNoErase == { c \in EditChunks : c # ERASE_CHARS }

NextEditNoErase == PtyRead(EditChunksNoErase) \/ Update \/ Resize(Sizes)

SpecEditNoErase == Init /\ [][NextEditNoErase]_vars

---------------------------------------------------------------------------
(* The multiplexer: the loop thread and one caller thread.  A method that  *)
(* is written "with self.lock" is two steps of the caller: the lock is     *)
(* taken, then the body runs and the lock is released; the loop thread's   *)
(* locked calls are one step each, enabled when the lock is free.  hist    *)
(* tells of the last step which thread took it, whether the thread held    *)
(* the lock, and whether the step read or wrote the map or a Terminal.     *)

MaxTerms == 2
MaxCalls == 3
MaxTicks == 1

MuxHist(op, arg, thread, locked, touched) ==
    [op |-> op, arg |-> arg, thread |-> thread, locked |-> locked, touched |-> touched]

MuxStep(m, h, cost) ==
    /\ mux' = m
    /\ hist' = h
    /\ steps' = steps + cost
    /\ term' = term

\* a pagelet longer than MAX_PAGELET_BYTES and the sequence that ends it
OVERFLOW == SET_PAGELET \o <<98, 98, 98, 98, ESC, 99>>
MuxChunks == { <<97>>, OVERFLOW }
Reads == {<<"data", c>> : c \in MuxChunks} \cup { <<"eof", << >> >>, <<"error", << >> >> }

LoopRunning ==
    /\ mux.loop.pc = "running" /\ mux.lock = ""
    /\ MuxStep(loop_running(mux), MuxHist("running", 0, "loop", TRUE, FALSE), 0)

LoopFds ==
    /\ mux.loop.pc = "fds"
    /\ MuxStep(loop_fds(mux), MuxHist("fd_dict", 0, "loop", FALSE, TRUE), 0)

LoopSelect ==
    /\ mux.loop.pc = "select"
    /\ \E inputs \in SUBSET DOMAIN mux.loop.fd_dict :
          /\ inputs = {} \/ steps < MaxCalls
          /\ MuxStep(loop_select(mux, inputs), MuxHist("select", inputs, "loop", FALSE, FALSE), 0)

LoopRead ==
    /\ mux.loop.pc = "read" /\ mux.lock = ""
    /\ \E r \in Reads :
          MuxStep(loop_read(mux, r[1], r[2]),
                  MuxHist("term_read", <<mux.loop.fd_dict[First(mux.loop.inputs)], r>>, "loop", TRUE, TRUE), 1)

LoopUpdateTest ==
    /\ mux.loop.pc = "update"
    /\ MuxStep(loop_update_test(mux),
               MuxHist("update_test", mux.loop.fd_dict[First(mux.loop.todo)], "loop", FALSE, TRUE), 0)

LoopUpdate ==
    /\ mux.loop.pc = "term_update" /\ mux.lock = ""
    /\ MuxStep(loop_update(mux),
               MuxHist("term_update", mux.loop.fd_dict[First(mux.loop.todo)], "loop", TRUE, TRUE), 0)

LoopCheck ==
    /\ mux.loop.pc = "check"
    /\ MuxStep(loop_check(mux), MuxHist("check_kill_idle", 0, "loop", FALSE, FALSE), 0)

LoopKillIdle ==
    /\ mux.loop.pc = "kill_idle" /\ mux.lock = ""
    /\ MuxStep(loop_kill_idle(mux), MuxHist("kill_idle", 0, "loop", TRUE, TRUE), 0)

LoopKillAll ==
    /\ mux.loop.pc = "kill_all" /\ mux.lock = ""
    /\ MuxStep(loop_kill_all(mux), MuxHist("kill_all", 0, "loop", TRUE, TRUE), 0)

Loop ==
    \/ LoopRunning \/ LoopFds \/ LoopSelect \/ LoopRead \/ LoopUpdateTest
    \/ LoopUpdate \/ LoopCheck \/ LoopKillIdle \/ LoopKillAll

\* the caller enters a method that takes the lock
Enter ==
    /\ mux.caller.pc = "idle" /\ mux.lock = "" /\ steps < MaxCalls
    /\ \E method \in {"terminal", "shutdown", "kill_term"}, term_name \in 1..MaxTerms :
          /\ method = "terminal" => mux.name_count < MaxTerms /\ term_name = 1
          /\ method = "shutdown" => term_name = 1
          /\ MuxStep([mux EXCEPT !.lock = "caller", !.caller.pc = method, !.caller.name = term_name],
                     MuxHist(method, term_name, "caller", TRUE, FALSE), 1)

Return(m) == [m EXCEPT !.lock = "", !.caller.pc = "idle"]

CallTerminal ==
    /\ mux.caller.pc = "terminal"
    /\ MuxStep(Return(terminal(mux, HEIGHT, WIDTH, COOKIE)),
               MuxHist("terminal", 0, "caller", TRUE, TRUE), 0)

\* mux.at_shutdown: the terminals of the map when shutdown() is called
CallShutdown ==
    /\ mux.caller.pc = "shutdown"
    /\ MuxStep(Return([shutdown(mux) EXCEPT !.at_shutdown = @ \cup DOMAIN mux.proc]),
               MuxHist("shutdown", 0, "caller", TRUE, TRUE), 0)

\* mux.asked: the live terminals a caller has asked to kill while the loop runs
CallKillTerm ==
    /\ mux.caller.pc = "kill_term"
    /\ MuxStep(Return([kill_term(mux, mux.caller.name) EXCEPT
                          !.asked = IF mux.caller.name \in DOMAIN mux.proc /\ mux.alive # 0
                                    THEN @ \cup {mux.caller.name} ELSE @]),
               MuxHist("kill_term", mux.caller.name, "caller", TRUE, TRUE), 0)

\* Multiplex.set_size: term = self.proc.get(term_name)
SetSizeGet ==
    /\ mux.caller.pc = "idle" /\ steps < MaxCalls
    /\ \E term_name \in 1..MaxTerms, hw \in {<<HEIGHT, WIDTH - 1>>} :
          MuxStep([mux EXCEPT !.caller.pc = IF term_name \in DOMAIN mux.proc THEN "set_size" ELSE "idle",
                              !.caller.name = term_name,
                              !.caller.height = hw[1], !.caller.width = hw[2]],
                  MuxHist("set_size", term_name, "caller", FALSE, TRUE), 1)

\* Multiplex.set_size: term.resize and the ioctl on term.fd; a terminal reaped since
\* the first step has its descriptor closed
SetSizeResize ==
    /\ mux.caller.pc = "set_size"
    /\ MuxStep([(IF mux.caller.name \in DOMAIN mux.proc
                 THEN set_size_term(mux, mux.caller.name, mux.caller.height, mux.caller.width)
                 ELSE [mux EXCEPT !.caller.exc = "IOError"])
                  EXCEPT !.caller.pc = "idle", !.raised = ""],
               MuxHist("resize", mux.caller.name, "caller", FALSE, TRUE), 0)

\* the clock
Tick ==
    /\ mux.now - START_TIME < MaxTicks * (UPDATE_INTERVAL + 1)
    /\ MuxStep([mux EXCEPT !.now = @ + UPDATE_INTERVAL + 1],
               MuxHist("tick", 0, "clock", FALSE, FALSE), 0)

\* a method that has taken the lock runs to its end
Locked == CallTerminal \/ CallShutdown \/ CallKillTerm

NextMux ==
    \/ Loop
    \/ Enter \/ Locked
    \/ SetSizeGet \/ SetSizeResize
    \/ Tick

SpecMux == Init /\ [][NextMux]_vars

\* the steps of the loop that end an iteration's check for terminals to reap
TickEnds == mux.loop.pc \in {"check", "kill_idle"} /\ mux'.loop.pc = "running"

\* has the terminal that got this name been reaped: out of the map, its
\* descriptor closed, its child sent SIGTERM (the child's pid is the name)
Reaped(m, n) == n \notin DOMAIN m.proc /\ n \in m.sigterm

\* C11: every terminal that was in the map when shutdown() was called is
\* eventually reaped.  Only the loop thread reaps, so the terminals must have
\* been reaped by the time the loop thread has ended.
C11_ShutdownReaps ==
    mux.loop.pc = "done" => \A n \in mux.at_shutdown : Reaped(mux, n)

\* C12: a live terminal that a caller asked to kill while the loop runs is
\* out of the map when the loop next finishes its check for terminals to
\* reap, whatever the loop read from the terminal in between.
C12_KilledByNextTick ==
    [][TickEnds => \A n \in mux.asked : Reaped(mux', n)]_vars

\* C13: every step that reads or writes the map of terminals or a Terminal
\* is taken by a thread that holds the mutex.
C13_StateUnderLock ==
    (hist.op # "init" /\ hist.touched) => hist.locked

\* the terminals whose read or update raised in this step
Failing == {n \in mux'.errlog : n \notin mux.errlog}

\* a step in which a read or an update raised leaves the loop inside the
\* iteration, with the other descriptors of the iteration still to be served
LoopGoesOn ==
    /\ mux'.loop.pc \in {"read", "update", "check"}
    /\ hist'.op = "term_read" =>
          mux'.loop.inputs = {f \in mux.loop.inputs : f # First(mux.loop.inputs)}
    /\ hist'.op = "term_update" =>
          mux'.loop.todo = {f \in mux.loop.todo : f # First(mux.loop.todo)}

=============================================================================
